---- MODULE Spec2Model ----
(***************************************************************************)
(* A model of the MIR core of compiler/rustc_middle/src/mir/mod.rs:        *)
(* BasicBlockData::expand_statements, the Body constructors and queries,   *)
(* and the predecessor / dominator caches of the block graph.              *)
(***************************************************************************)
EXTENDS Integers, Sequences, FiniteSets, TLC

\* ------------------------------------------------------------------ bounds
\* Largest number of statements of a block handed to expand_statements.
MaxStmts == 3
\* Largest number of statements a replacement iterator yields.
MaxNew == 3
\* Largest number of basic blocks of a Body.
MaxBlocks == 2
\* Largest number of local declarations handed to Body::new.
MaxLocals == 3
\* Largest byte value written as a payload or as a plain field.
MaxByte == 2
\* Largest number of fields of an encoded structure.
MaxFields == 2
\* Largest number of required constants of a Body.
MaxConsts == 2
\* Number of threads of a process.
MaxThreads == 2
\* Largest value the count part of GLOBAL_PANIC_COUNT takes.
MaxPanics == 2
\* Largest number of derive calls on an IdMap.
MaxDerives == 3

\* --------------------------------------------------------------- variables
VARIABLES
    statements,   \* BasicBlockData::statements of the block being expanded
    f_plan,       \* the callback f: what its j-th call does and returns
    splices,      \* Vec<(usize, I)>: pending (splice_start, remaining iterator)
    extra_stmts,  \* running count of statements still to be inserted
    idx,          \* enumerate() position of the gathering loop
    gap,          \* the range gap.start..gap.end of filler statements
    pc,           \* where expand_statements is
    origin,       \* how the Body came to be: none, new, cfg_only, failed
    basic_blocks, \* Body::basic_blocks: the block table of the graph store
    preds_cache,  \* the graph store's memoized predecessors, None or Some
    doms_cache,   \* the graph store's memoized dominators, None or Some
    borrow,       \* the live &mut into the block table, if any
    phase,        \* Body::phase
    pass_count,   \* Body::pass_count
    source_scopes,    \* Body::source_scopes
    local_decls,      \* Body::local_decls
    arg_count,        \* Body::arg_count
    injection_phase,  \* Body::injection_phase
    required_consts,  \* Body::required_consts
    debug_assertions, \* whether the build keeps debug_assert!
    ret,              \* the last call: its name, argument and outcome
    locations,        \* the two locations a caller asks about: self, other
    queue,            \* is_predecessor_of: the blocks still to be looked at
    visited,          \* is_predecessor_of: the blocks already looked at
    E_CLEAR_CROSS_CRATE,  \* the encoder's CLEAR_CROSS_CRATE
    D_CLEAR_CROSS_CRATE,  \* the decoder's CLEAR_CROSS_CRATE
    fields,           \* the ClearCrossCrate values handed to the encoder
    encoded,          \* how many of them have been encoded
    e,                \* the encoder's output: the bytes written so far
    position,         \* the decoder's position in those bytes
    decoded,          \* the outcome of each decode so far
    PASS_NAMES,       \* per thread: the map from pass name to cached &'static str
    profiler_call,    \* per thread: the to_profiler_name call it is in, its result
    leaked,           \* the strings leaked so far; a &'static str is an index here
    GLOBAL_PANIC_COUNT,   \* panic_count::GLOBAL_PANIC_COUNT
    LOCAL_PANIC_COUNT,    \* panic_count::LOCAL_PANIC_COUNT of the thread followed
    panic_thread,     \* that thread: where it is, its panics in flight, what its
                      \* last count_is_zero() returned if its cell is as it was then
    other_threads,    \* the fetch_adds of the other threads that no fetch_sub of
                      \* theirs has undone yet
    aborted,          \* None, or why the thread followed aborted the process
    map,              \* IdMap::map
    derived           \* the derive calls so far: candidate and returned id

expandVars == <<statements, f_plan, splices, extra_stmts, idx, gap, pc>>

graphVars == <<basic_blocks, preds_cache, doms_cache, borrow>>

bodyVars == <<origin, graphVars, phase, pass_count, source_scopes, local_decls,
              arg_count, injection_phase, required_consts, debug_assertions, ret>>

searchVars == <<locations, queue, visited>>

codecVars == <<E_CLEAR_CROSS_CRATE, D_CLEAR_CROSS_CRATE, fields, encoded, e,
               position, decoded>>

passVars == <<PASS_NAMES, profiler_call, leaked>>

panicVars == <<GLOBAL_PANIC_COUNT, LOCAL_PANIC_COUNT, panic_thread, other_threads,
               aborted>>

idVars == <<map, derived>>

laterVars == <<passVars, panicVars, idVars>>

extraVars == <<searchVars, codecVars, laterVars>>

vars == <<expandVars, bodyVars, extraVars>>

\* ------------------------------------------------------------------ Option
None == <<>>
Some(x) == <<x>>
is_some(o) == o # <<>>
unwrap(o) == o[1]

\* The live mutable borrow of the block table: none, of the whole vector
\* (basic_blocks_mut), or of one block (index_mut).
NoBorrow == [kind |-> "none", block |-> 0]

\* ---------------------------------------------------------------- MirPhase
MirPhase_Built == [dialect |-> "Built", sub |-> "None"]

\* ------------------------------------------------------------- statements
\* SourceInfo::outermost(DUMMY_SP): the source info of no real statement.
DUMMY_SP == 0

\* A statement: its kind, its source info and the rest of its contents.
Stmt(kind, source_info, payload) ==
    [kind |-> kind, source_info |-> source_info, payload |-> payload]

\* The j-th statement of the block before expand_statements runs.
OrigStmt(j) == Stmt("Assign", j, 0)

\* Mutant of make_nop: the Nop loses the statement's source info.
make_nop_dummy_span(s) == Stmt("Nop", DUMMY_SP, 0)

\* Statement::make_nop: the kind becomes Nop, the source info stays.
make_nop(s) == Stmt("Nop", s.source_info, 0)

\* The statement resize() fills the gap with.
GapFiller == Stmt("Nop", DUMMY_SP, 0)

\* What f may do on one call: return None (having edited the statement in
\* place or not), or Some(iterator of len statements).
FChoice ==
    {[some |-> FALSE, len |-> 0, mutates |-> b] : b \in BOOLEAN}
        \cup {[some |-> TRUE, len |-> m, mutates |-> FALSE] : m \in 0..MaxNew}

\* The statement f leaves behind when it edits statement j in place.
EditedStmt(j) == Stmt("Assign", j, MaxNew + 1)

\* The iterator f returns for statement j: len fresh statements, in order.
NewStmts(j, len) == [n \in 1..len |-> Stmt("Assign", j, n)]

\* ------------------------------------------------------ expand_statements
\* new_stmts.size_hint().0 of a TrustedLen iterator: its exact length.
size_hint(new_stmts) == Len(new_stmts)

\* splices.push((i + 1 + extra_stmts, new_stmts))
SpliceStart(i, extra) == i + 1 + extra

\* Mutant of GapRange: the gap is one statement too long.
GapRangeInclusive(len, extra) == [start |-> len, end |-> len + extra + 1]

\* let mut gap = self.statements.len()..self.statements.len() + extra_stmts
GapRange(len, extra) == [start |-> len, end |-> len + extra]

\* Vec::resize(new_len, value): grow with copies of value.
resize(v, new_len, value) ==
    [n \in 1..new_len |-> IF n <= Len(v) THEN v[n] ELSE value]

\* Mutant of swap: both indices are gap.start, so nothing moves.
swap_same_index(v, a, b) == v

\* Vec::swap(a, b) with 0-based indices.
swap(v, a, b) == [v EXCEPT ![a + 1] = v[b + 1], ![b + 1] = v[a + 1]]

\* Mutant of splice: the iterator is inserted at start and replaces nothing.
splice_insert_only(v, start, end, new_stmts) ==
    SubSeq(v, 1, start) \o new_stmts \o SubSeq(v, start + 1, Len(v))

\* Vec::splice(start..end, iter) with 0-based, end-exclusive bounds.
splice(v, start, end, new_stmts) ==
    SubSeq(v, 1, start) \o new_stmts \o SubSeq(v, end + 1, Len(v))

\* gap.end = splice_start
GapAfterSplice(g, splice_start) == [g EXCEPT !.end = splice_start]

\* The splice the reversed iteration handles next: the last one pushed.
NextSplice(sp) == sp[Len(sp)]

\* One iteration of `for (i, s) in self.statements.iter_mut().enumerate()`.
Gather ==
    /\ pc = "gather"
    /\ idx < Len(statements)
    /\ LET c == f_plan[idx + 1]
           s == statements[idx + 1]
           new_stmts == NewStmts(s.source_info, c.len)
           rest == Tail(new_stmts)
           remaining == size_hint(rest)
       IN  IF ~c.some
           THEN /\ statements' = IF c.mutates
                                 THEN [statements EXCEPT ![idx + 1] = EditedStmt(s.source_info)]
                                 ELSE statements
                /\ UNCHANGED <<splices, extra_stmts>>
           ELSE IF c.len = 0
           THEN /\ statements' = [statements EXCEPT ![idx + 1] = make_nop(s)]
                /\ UNCHANGED <<splices, extra_stmts>>
           ELSE /\ statements' = [statements EXCEPT ![idx + 1] = Head(new_stmts)]
                /\ IF remaining > 0
                   THEN /\ splices' = Append(splices,
                                [start |-> SpliceStart(idx, extra_stmts), iter |-> rest])
                        /\ extra_stmts' = extra_stmts + remaining
                   ELSE UNCHANGED <<splices, extra_stmts>>
    /\ idx' = idx + 1
    /\ UNCHANGED <<f_plan, gap, pc, bodyVars, extraVars>>

\* After the loop: compute the gap and resize the vector to cover it.
Resize ==
    /\ pc = "gather"
    /\ idx = Len(statements)
    /\ gap' = GapRange(Len(statements), extra_stmts)
    /\ statements' = resize(statements, gap'.end, GapFiller)
    /\ pc' = "splice"
    /\ UNCHANGED <<f_plan, splices, extra_stmts, idx, bodyVars, extraVars>>

\* One iteration of `while gap.end > splice_end`.
ShiftGap ==
    /\ pc = "splice"
    /\ splices # <<>>
    /\ LET sp == NextSplice(splices)
           splice_end == sp.start + size_hint(sp.iter)
       IN  /\ gap.end > splice_end
           /\ gap' = [start |-> gap.start - 1, end |-> gap.end - 1]
           /\ statements' = swap(statements, gap'.start, gap'.end)
    /\ UNCHANGED <<f_plan, splices, extra_stmts, idx, pc, bodyVars, extraVars>>

\* The while loop is over: splice the iterator in and shrink the gap.
SpliceIn ==
    /\ pc = "splice"
    /\ splices # <<>>
    /\ LET sp == NextSplice(splices)
           splice_end == sp.start + size_hint(sp.iter)
       IN  /\ ~(gap.end > splice_end)
           /\ statements' = splice(statements, sp.start, splice_end, sp.iter)
           /\ gap' = GapAfterSplice(gap, sp.start)
    /\ splices' = SubSeq(splices, 1, Len(splices) - 1)
    /\ UNCHANGED <<f_plan, extra_stmts, idx, pc, bodyVars, extraVars>>

\* splices.into_iter().rev() is exhausted: expand_statements returns.
ExpandReturn ==
    /\ pc = "splice"
    /\ splices = <<>>
    /\ pc' = "done"
    /\ UNCHANGED <<statements, f_plan, splices, extra_stmts, idx, gap, bodyVars, extraVars>>

\* No is_predecessor_of call in progress.
SearchIdle ==
    /\ locations = <<>>
    /\ queue = <<>>
    /\ visited = {}

\* No encoder and no decoder at work.
CodecIdle ==
    /\ E_CLEAR_CROSS_CRATE = FALSE
    /\ D_CLEAR_CROSS_CRATE = FALSE
    /\ fields = <<>>
    /\ encoded = 0
    /\ e = <<>>
    /\ position = 0
    /\ decoded = <<>>

\* No thread has asked for a profiler name.
PassIdle ==
    /\ PASS_NAMES = <<>>
    /\ profiler_call = <<>>
    /\ leaked = <<>>

\* No thread of a std process is modelled.
PanicIdle ==
    /\ GLOBAL_PANIC_COUNT = 0
    /\ LOCAL_PANIC_COUNT = <<>>
    /\ panic_thread = <<>>
    /\ other_threads = 0
    /\ aborted = <<>>

\* No IdMap has been made.
IdIdle ==
    /\ map = <<>>
    /\ derived = <<>>

LaterIdle == PassIdle /\ PanicIdle /\ IdIdle

\* No Body: the state of the Body variables where only a block is expanded.
NoBody ==
    /\ origin = "none"
    /\ basic_blocks = <<>>
    /\ preds_cache = None
    /\ doms_cache = None
    /\ borrow = NoBorrow
    /\ phase = MirPhase_Built
    /\ pass_count = 0
    /\ source_scopes = <<>>
    /\ local_decls = <<>>
    /\ arg_count = 0
    /\ injection_phase = None
    /\ required_consts = <<>>
    /\ ret = [op |-> "none"]

\* A block of up to MaxStmts statements and any callback over it.
InitExpand ==
    /\ NoBody
    /\ debug_assertions = FALSE
    /\ \E n \in 0..MaxStmts :
          /\ statements = [j \in 1..n |-> OrigStmt(j)]
          /\ f_plan \in [1..n -> FChoice]
    /\ splices = <<>>
    /\ extra_stmts = 0
    /\ idx = 0
    /\ gap = [start |-> 0, end |-> 0]
    /\ pc = "gather"
    /\ SearchIdle
    /\ CodecIdle
    /\ LaterIdle

NextExpand == Gather \/ Resize \/ ShiftGap \/ SpliceIn \/ ExpandReturn

SpecExpand == InitExpand /\ [][NextExpand]_vars

\* ==================================================================== Body
\* A terminator: its kind, its source info and the blocks it branches to.
Terminator(kind, source_info, targets) ==
    [kind |-> kind, source_info |-> source_info, targets |-> targets]

\* BasicBlockData { statements, terminator, is_cleanup }
BasicBlockData(stmts, terminator) ==
    [statements |-> stmts, terminator |-> terminator, is_cleanup |-> FALSE]

\* LocalDecl::with_source_info: a mutable, non-internal, Boring local.
LocalDecl_new == [mutability |-> "Mut", local_info |-> "Boring"]

\* LocalDecl::immutable: the same declaration tagged Mutability::Not.
immutable(decl) == [decl EXCEPT !.mutability = "Not"]

\* Location { block, statement_index }
Location(block, statement_index) ==
    [block |-> block, statement_index |-> statement_index]

\* The outcome of a call: a tag (Ok, Panic, Left, Right, a LocalKind) and a value.
Outcome(tag, v) == [tag |-> tag, v |-> v]

Panic == Outcome("Panic", <<>>)

\* The record of a call: what was called, with what, and how it ended.
Call(op, arg, val) == [op |-> op, arg |-> arg, val |-> val]

\* ------------------------------------------------------------ graph store
\* BasicBlocks::new(basic_blocks): the table with nothing memoized.
BasicBlocks_new(blocks) ==
    [basic_blocks |-> blocks, preds_cache |-> None, doms_cache |-> None]

\* ---------------------------------------------------------------- Body::new
\* Mutant of NewAssertion: the return place is not counted.
NewAssertionNoReturnPlace(len, argc) == len >= argc

\* assert!(local_decls.len() > arg_count, ...)
NewAssertion(len, argc) == len > argc

\* The Body that Body::new builds once its assertion has passed.
NewBody(inp) ==
    [graph |-> BasicBlocks_new(inp.basic_blocks),
     phase |-> MirPhase_Built,
     pass_count |-> 0,
     source_scopes |-> inp.source_scopes,
     local_decls |-> inp.local_decls,
     arg_count |-> inp.arg_count,
     injection_phase |-> None,
     required_consts |-> <<>>]

\* The Body that Body::new_cfg_only builds: blocks only, no locals, no scopes.
NewCfgOnlyBody(blocks) ==
    [graph |-> BasicBlocks_new(blocks),
     phase |-> MirPhase_Built,
     pass_count |-> 0,
     source_scopes |-> <<>>,
     local_decls |-> <<>>,
     arg_count |-> 0,
     injection_phase |-> None,
     required_consts |-> <<>>]

\* The Body variables take the fields of a freshly built Body.
Install(b) ==
    /\ basic_blocks' = b.graph.basic_blocks
    /\ preds_cache' = b.graph.preds_cache
    /\ doms_cache' = b.graph.doms_cache
    /\ borrow' = NoBorrow
    /\ phase' = b.phase
    /\ pass_count' = b.pass_count
    /\ source_scopes' = b.source_scopes
    /\ local_decls' = b.local_decls
    /\ arg_count' = b.arg_count
    /\ injection_phase' = b.injection_phase
    /\ required_consts' = b.required_consts

\* The source info of statement j (1-based; MaxStmts + 1 is the terminator)
\* of block b in the block tables handed to the constructors: all distinct.
InputSourceInfo(b, j) == b * (MaxStmts + 1) + j

\* A block of k statements for the constructors, with or without terminator.
InputBlock(b, k, has_term) ==
    BasicBlockData(
        [j \in 1..k |-> Stmt("Assign", InputSourceInfo(b, j), 0)],
        IF has_term
        THEN Some(Terminator("Return", InputSourceInfo(b, MaxStmts + 1), <<>>))
        ELSE None)

\* Block tables of 1..MaxBlocks blocks with 0..MaxStmts statements each.
InputBlockTables ==
    UNION {
        { [b1 \in 1..n |-> InputBlock(b1 - 1, shape[b1].k, shape[b1].t)] :
            shape \in [1..n -> [k : 0..MaxStmts, t : BOOLEAN]] }
        : n \in 1..MaxBlocks }

\* Local tables of 0..MaxLocals declarations, each mutable or immutable.
InputLocalTables ==
    UNION { [1..n -> {LocalDecl_new, immutable(LocalDecl_new)}] : n \in 0..MaxLocals }

\* Source scope tables: the outermost scope alone, or with one child.
InputScopeTables == { <<None>>, <<None, Some(0)>> }

\* The arguments of Body::new drawn by the model: every block table with one
\* plain local, and every local table and arg_count with one plain block.
NewInputs ==
    { [basic_blocks |-> bt, source_scopes |-> <<None>>,
       local_decls |-> <<LocalDecl_new>>, arg_count |-> 0] : bt \in InputBlockTables }
    \cup
    { [basic_blocks |-> <<InputBlock(0, k, TRUE)>>, source_scopes |-> sc,
       local_decls |-> lt, arg_count |-> ac] :
        k \in 0..1, sc \in InputScopeTables, lt \in InputLocalTables, ac \in 0..MaxLocals }

\* Body::new
BodyNew ==
    /\ origin = "none"
    /\ \E inp \in NewInputs :
          IF NewAssertion(Len(inp.local_decls), inp.arg_count)
          THEN /\ Install(NewBody(inp))
               /\ origin' = "new"
               /\ ret' = Call("Body::new", inp, Outcome("Ok", <<>>))
          ELSE /\ origin' = "failed"
               /\ ret' = Call("Body::new", inp, Panic)
               /\ UNCHANGED <<graphVars, phase, pass_count, source_scopes, local_decls,
                              arg_count, injection_phase, required_consts>>
    /\ UNCHANGED <<debug_assertions, expandVars, extraVars>>

\* Body::new_cfg_only
BodyNewCfgOnly ==
    /\ origin = "none"
    /\ \E bt \in InputBlockTables :
          /\ Install(NewCfgOnlyBody(bt))
          /\ ret' = Call("Body::new_cfg_only", bt, Outcome("Ok", <<>>))
    /\ origin' = "cfg_only"
    /\ UNCHANGED <<debug_assertions, expandVars, extraVars>>

\* ---------------------------------------------------------- Body::local_kind
\* Body::local_kind. With debug assertions the index-0 branch reads
\* local_decls[local] and asserts that it is mutable.
local_kind(decls, argc, dbg, local) ==
    IF local = 0
    THEN IF dbg /\ (Len(decls) = 0 \/ decls[1].mutability # "Mut")
         THEN Panic
         ELSE Outcome("ReturnPointer", <<>>)
    ELSE IF local < argc + 1
    THEN Outcome("Arg", <<>>)
    ELSE Outcome("Temp", <<>>)

\* A call of local_kind on a local of the Body.
LocalKind ==
    /\ origin \in {"new", "cfg_only"}
    /\ \E local \in 0..(Len(local_decls) - 1) :
          ret' = Call("local_kind", local,
                      local_kind(local_decls, arg_count, debug_assertions, local))
    /\ UNCHANGED <<origin, graphVars, phase, pass_count, source_scopes, local_decls,
                   arg_count, injection_phase, required_consts, debug_assertions,
                   expandVars, extraVars>>

\* ------------------------------------------------ Body::drain_vars_and_temps
\* Mutant of DrainStart: the range starts at arg_count.
DrainStartNoReturnPlace(argc) == argc

\* The start of the drained range arg_count + 1..
DrainStart(argc) == argc + 1

\* Body::drain_vars_and_temps: Vec::drain panics when the range starts past
\* the end, and otherwise leaves the locals before the range.
DrainVarsAndTemps ==
    /\ origin \in {"new", "cfg_only"}
    /\ LET start == DrainStart(arg_count)
       IN  IF start > Len(local_decls)
           THEN /\ ret' = Call("drain_vars_and_temps", <<>>, Panic)
                /\ UNCHANGED local_decls
           ELSE /\ ret' = Call("drain_vars_and_temps", <<>>,
                               Outcome("Ok", SubSeq(local_decls, start + 1, Len(local_decls))))
                /\ local_decls' = SubSeq(local_decls, 1, start)
    /\ UNCHANGED <<origin, graphVars, phase, pass_count, source_scopes,
                   arg_count, injection_phase, required_consts, debug_assertions,
                   expandVars, extraVars>>

\* -------------------------------------------- Body::stmt_at and source_info
\* BasicBlockData::terminator: expect("invalid terminator state")
terminator(block_data) ==
    IF is_some(block_data.terminator)
    THEN Outcome("Ok", unwrap(block_data.terminator))
    ELSE Panic

\* Body::terminator_loc
terminator_loc(blocks, bb) == Location(bb, Len(blocks[bb + 1].statements))

\* Mutant of stmt_at: the terminator is returned from the last statement on.
stmt_at_early_terminator(blocks, location) ==
    LET block_data == blocks[location.block + 1]
        term == terminator(block_data)
    IN  IF location.statement_index + 1 < Len(block_data.statements)
        THEN Outcome("Left", block_data.statements[location.statement_index + 1])
        ELSE IF term.tag = "Ok" THEN Outcome("Right", term.v) ELSE Panic

\* Body::stmt_at: statements.get(statement_index) or else the terminator.
stmt_at(blocks, location) ==
    LET block_data == blocks[location.block + 1]
        term == terminator(block_data)
    IN  IF location.statement_index < Len(block_data.statements)
        THEN Outcome("Left", block_data.statements[location.statement_index + 1])
        ELSE IF term.tag = "Ok" THEN Outcome("Right", term.v) ELSE Panic

\* Mutant of source_info: the assert_eq! on the index is missing.
source_info_unchecked(blocks, location) ==
    LET block == blocks[location.block + 1]
        stmts == block.statements
        i == location.statement_index
        term == terminator(block)
    IN  IF i < Len(stmts)
        THEN Outcome("Ok", stmts[i + 1].source_info)
        ELSE IF term.tag = "Ok" THEN Outcome("Ok", term.v.source_info) ELSE Panic

\* Body::source_info
source_info(blocks, location) ==
    LET block == blocks[location.block + 1]
        stmts == block.statements
        i == location.statement_index
        term == terminator(block)
    IN  IF i < Len(stmts)
        THEN Outcome("Ok", stmts[i + 1].source_info)
        ELSE IF i # Len(stmts)
        THEN Panic
        ELSE IF term.tag = "Ok" THEN Outcome("Ok", term.v.source_info) ELSE Panic

\* The locations the model asks about: every block of the Body, every index
\* up to one past the terminator's.
Locations ==
    { Location(b, i) : b \in 0..(Len(basic_blocks) - 1), i \in 0..(MaxStmts + 1) }

InBlock(location) ==
    location.statement_index <= Len(basic_blocks[location.block + 1].statements) + 1

\* A call of stmt_at.
StmtAt ==
    /\ origin \in {"new", "cfg_only"}
    /\ borrow = NoBorrow
    /\ \E location \in Locations :
          /\ InBlock(location)
          /\ ret' = Call("stmt_at", location, stmt_at(basic_blocks, location))
    /\ UNCHANGED <<origin, graphVars, phase, pass_count, source_scopes, local_decls,
                   arg_count, injection_phase, required_consts, debug_assertions,
                   expandVars, extraVars>>

\* A call of source_info.
SourceInfo ==
    /\ origin \in {"new", "cfg_only"}
    /\ borrow = NoBorrow
    /\ \E location \in Locations :
          /\ InBlock(location)
          /\ ret' = Call("source_info", location, source_info(basic_blocks, location))
    /\ UNCHANGED <<origin, graphVars, phase, pass_count, source_scopes, local_decls,
                   arg_count, injection_phase, required_consts, debug_assertions,
                   expandVars, extraVars>>

\* No Body yet, in a build with or without debug assertions.
InitBody ==
    /\ NoBody
    /\ debug_assertions \in BOOLEAN
    /\ statements = <<>>
    /\ f_plan = <<>>
    /\ splices = <<>>
    /\ extra_stmts = 0
    /\ idx = 0
    /\ gap = [start |-> 0, end |-> 0]
    /\ pc = "idle"
    /\ SearchIdle
    /\ CodecIdle
    /\ LaterIdle

NextBody ==
    \/ BodyNew
    \/ BodyNewCfgOnly
    \/ LocalKind
    \/ DrainVarsAndTemps
    \/ StmtAt
    \/ SourceInfo

SpecBody == InitBody /\ [][NextBody]_vars

\* ============================================================= graph store
\* START_BLOCK, the entry block.
START_BLOCK == 0

\* Terminator::successors: the blocks the terminator branches to, in order.
successors(term) == term.targets

\* The terminators a block of a graph of n blocks may be given: none, a
\* return, a goto, or a two-way switch (both ways may be the same block).
GraphTerminators(n) ==
    {None}
    \cup {Some(Terminator("Return", DUMMY_SP, <<>>))}
    \cup {Some(Terminator("Goto", DUMMY_SP, <<t>>)) : t \in 0..(n - 1)}
    \cup {Some(Terminator("SwitchInt", DUMMY_SP, <<a, b>>)) : a, b \in 0..(n - 1)}

\* The entries block bb adds to the predecessor list of block t: one per
\* successor edge from bb to t.
EdgesFrom(blocks, bb, t) ==
    IF is_some(blocks[bb + 1].terminator)
    THEN [n \in 1..Len(SelectSeq(successors(unwrap(blocks[bb + 1].terminator)),
                                 LAMBDA succ : succ = t)) |-> bb]
    ELSE <<>>

RECURSIVE PredecessorsFromFirst(_, _, _)
PredecessorsFromFirst(blocks, count, t) ==
    IF count = 0 THEN <<>>
    ELSE PredecessorsFromFirst(blocks, count - 1, t) \o EdgesFrom(blocks, count - 1, t)

\* The predecessor lists computed from a block table: for each block, the
\* blocks with a terminator edge into it, in block order.
ComputePredecessors(blocks) ==
    [t1 \in 1..Len(blocks) |-> PredecessorsFromFirst(blocks, Len(blocks), t1 - 1)]

\* The blocks one edge away from a set of blocks, not entering `avoid`.
StepFrom(blocks, from, avoid) ==
    { t \in 0..(Len(blocks) - 1) :
        /\ t \notin avoid
        /\ \E bb \in from :
              /\ is_some(blocks[bb + 1].terminator)
              /\ \E n \in DOMAIN successors(unwrap(blocks[bb + 1].terminator)) :
                    successors(unwrap(blocks[bb + 1].terminator))[n] = t }

RECURSIVE ReachWithin(_, _, _, _)
ReachWithin(blocks, from, avoid, steps) ==
    IF steps = 0 THEN from
    ELSE ReachWithin(blocks, from \cup StepFrom(blocks, from, avoid), avoid, steps - 1)

\* The blocks reachable from START_BLOCK on paths that do not enter `avoid`.
ReachableAvoiding(blocks, avoid) ==
    IF START_BLOCK \in avoid \/ blocks = <<>> THEN {}
    ELSE ReachWithin(blocks, {START_BLOCK}, avoid, Len(blocks))

\* The dominators computed from a block table: for each block reachable from
\* START_BLOCK the blocks on every path to it, for an unreachable one none.
ComputeDominators(blocks) ==
    [b1 \in 1..Len(blocks) |->
        IF (b1 - 1) \notin ReachableAvoiding(blocks, {}) THEN {}
        ELSE { d \in 0..(Len(blocks) - 1) :
                 d = b1 - 1 \/ (b1 - 1) \notin ReachableAvoiding(blocks, {d}) }]

\* The two memoized tables of the graph store.
Cache == [preds |-> preds_cache, doms |-> doms_cache]

\* BasicBlocks::as_mut: mutable access to the block vector drops both caches.
BasicBlocks_as_mut(cache) == [preds |-> None, doms |-> None]

\* Mutant of Body_basic_blocks_mut: the block vector is handed out directly.
Body_basic_blocks_mut_keeps_cache(cache) == cache

\* Body::basic_blocks_mut: self.basic_blocks.as_mut()
Body_basic_blocks_mut(cache) == BasicBlocks_as_mut(cache)

\* IndexMut<BasicBlock> for Body: &mut self.basic_blocks.as_mut()[index]
Body_index_mut(cache) == BasicBlocks_as_mut(cache)

\* A caller takes body.basic_blocks_mut().
BasicBlocksMut ==
    /\ origin = "new"
    /\ borrow = NoBorrow
    /\ preds_cache' = Body_basic_blocks_mut(Cache).preds
    /\ doms_cache' = Body_basic_blocks_mut(Cache).doms
    /\ borrow' = [kind |-> "vec", block |-> 0]
    /\ ret' = Call("basic_blocks_mut", <<>>, Outcome("Ok", <<>>))
    /\ UNCHANGED <<origin, basic_blocks, phase, pass_count, source_scopes, local_decls,
                   arg_count, injection_phase, required_consts, debug_assertions,
                   expandVars, extraVars>>

\* A caller takes &mut body[bb].
IndexMut ==
    /\ origin = "new"
    /\ borrow = NoBorrow
    /\ \E bb \in 0..(Len(basic_blocks) - 1) :
          /\ borrow' = [kind |-> "block", block |-> bb]
          /\ ret' = Call("index_mut", bb, Outcome("Ok", <<>>))
    /\ preds_cache' = Body_index_mut(Cache).preds
    /\ doms_cache' = Body_index_mut(Cache).doms
    /\ UNCHANGED <<origin, basic_blocks, phase, pass_count, source_scopes, local_decls,
                   arg_count, injection_phase, required_consts, debug_assertions,
                   expandVars, extraVars>>

\* The holder of the borrow replaces the terminator of a block it can reach.
WriteTerminator ==
    /\ borrow.kind \in {"vec", "block"}
    /\ \E bb \in 0..(Len(basic_blocks) - 1), t \in GraphTerminators(Len(basic_blocks)) :
          /\ borrow.kind = "block" => bb = borrow.block
          /\ t # basic_blocks[bb + 1].terminator
          /\ basic_blocks' = [basic_blocks EXCEPT ![bb + 1].terminator = t]
          /\ ret' = Call("write_terminator", bb, Outcome("Ok", <<>>))
    /\ UNCHANGED <<origin, preds_cache, doms_cache, borrow, phase, pass_count,
                   source_scopes, local_decls, arg_count, injection_phase,
                   required_consts, debug_assertions, expandVars, extraVars>>

\* The holder of basic_blocks_mut() pushes BasicBlockData::new(None).
PushBlock ==
    /\ borrow.kind = "vec"
    /\ Len(basic_blocks) < MaxBlocks
    /\ basic_blocks' = Append(basic_blocks, BasicBlockData(<<>>, None))
    /\ ret' = Call("push", <<>>, Outcome("Ok", <<>>))
    /\ UNCHANGED <<origin, preds_cache, doms_cache, borrow, phase, pass_count,
                   source_scopes, local_decls, arg_count, injection_phase,
                   required_consts, debug_assertions, expandVars, extraVars>>

\* The mutable borrow ends.
EndBorrow ==
    /\ borrow.kind \in {"vec", "block"}
    /\ borrow' = NoBorrow
    /\ ret' = Call("end_borrow", <<>>, Outcome("Ok", <<>>))
    /\ UNCHANGED <<origin, basic_blocks, preds_cache, doms_cache, phase, pass_count,
                   source_scopes, local_decls, arg_count, injection_phase,
                   required_consts, debug_assertions, expandVars, extraVars>>

\* BasicBlocks::predecessors: computed on first use, then memoized.
Predecessors ==
    /\ origin = "new"
    /\ borrow = NoBorrow
    /\ preds_cache' = IF is_some(preds_cache) THEN preds_cache
                      ELSE Some(ComputePredecessors(basic_blocks))
    /\ ret' = Call("predecessors", <<>>, Outcome("Ok", unwrap(preds_cache')))
    /\ UNCHANGED <<origin, basic_blocks, doms_cache, borrow, phase, pass_count,
                   source_scopes, local_decls, arg_count, injection_phase,
                   required_consts, debug_assertions, expandVars, extraVars>>

\* BasicBlocks::dominators: computed on first use, then memoized.
Dominators ==
    /\ origin = "new"
    /\ borrow = NoBorrow
    /\ doms_cache' = IF is_some(doms_cache) THEN doms_cache
                     ELSE Some(ComputeDominators(basic_blocks))
    /\ ret' = Call("dominators", <<>>, Outcome("Ok", unwrap(doms_cache')))
    /\ UNCHANGED <<origin, basic_blocks, preds_cache, borrow, phase, pass_count,
                   source_scopes, local_decls, arg_count, injection_phase,
                   required_consts, debug_assertions, expandVars, extraVars>>

\* The arguments of Body::new for the graph store: one block that returns.
GraphInput ==
    [basic_blocks |-> <<BasicBlockData(<<>>, Some(Terminator("Return", DUMMY_SP, <<>>)))>>,
     source_scopes |-> <<None>>,
     local_decls |-> <<LocalDecl_new>>,
     arg_count |-> 0]

\* The Body that Body::new returns for GraphInput.
InitGraph ==
    /\ origin = "new"
    /\ basic_blocks = NewBody(GraphInput).graph.basic_blocks
    /\ preds_cache = NewBody(GraphInput).graph.preds_cache
    /\ doms_cache = NewBody(GraphInput).graph.doms_cache
    /\ borrow = NoBorrow
    /\ phase = NewBody(GraphInput).phase
    /\ pass_count = NewBody(GraphInput).pass_count
    /\ source_scopes = NewBody(GraphInput).source_scopes
    /\ local_decls = NewBody(GraphInput).local_decls
    /\ arg_count = NewBody(GraphInput).arg_count
    /\ injection_phase = NewBody(GraphInput).injection_phase
    /\ required_consts = NewBody(GraphInput).required_consts
    /\ debug_assertions \in BOOLEAN
    /\ ret = Call("Body::new", GraphInput, Outcome("Ok", <<>>))
    /\ statements = <<>>
    /\ f_plan = <<>>
    /\ splices = <<>>
    /\ extra_stmts = 0
    /\ idx = 0
    /\ gap = [start |-> 0, end |-> 0]
    /\ pc = "idle"
    /\ SearchIdle
    /\ CodecIdle
    /\ LaterIdle

NextGraph ==
    \/ BasicBlocksMut
    \/ IndexMut
    \/ WriteTerminator
    \/ PushBlock
    \/ EndBorrow
    \/ Predecessors
    \/ Dominators

SpecGraph == InitGraph /\ [][NextGraph]_vars

\* ------------------------------------------------- expand_statements: claims
\* Extra statements one call of f contributes: m - 1 for an iterator of m >= 2.
ExtraOf(c) == IF c.some /\ c.len >= 2 THEN c.len - 1 ELSE 0

RECURSIVE SumExtra(_)
SumExtra(j) == IF j = 0 THEN 0 ELSE SumExtra(j - 1) + ExtraOf(f_plan[j])

\* C1: when expand_statements returns, the block holds N statements plus, for
\* every original statement replaced by m >= 2 statements, m - 1 more; None,
\* an empty iterator and a one-element iterator add nothing.
C1_FinalCount ==
    pc = "done" => Len(statements) = Len(f_plan) + SumExtra(Len(f_plan))

\* A run that returned after f gave 3, 0 and 2 replacements for three statements.
C1_Witness ==
    /\ pc = "done"
    /\ Len(f_plan) = 3
    /\ f_plan[1].some /\ f_plan[1].len = 3
    /\ f_plan[2].some /\ f_plan[2].len = 0
    /\ f_plan[3].some /\ f_plan[3].len = 2
    /\ Len(statements) = 6

\* The statements original statement j stands for in the result.
ExpectedGroup(j) ==
    LET c == f_plan[j]
    IN  IF ~c.some THEN <<IF c.mutates THEN EditedStmt(j) ELSE OrigStmt(j)>>
        ELSE IF c.len = 0 THEN <<Stmt("Nop", j, 0)>>
        ELSE [n \in 1..c.len |-> Stmt("Assign", j, n)]

RECURSIVE ConcatGroups(_)
ConcatGroups(j) == IF j = 0 THEN <<>> ELSE ConcatGroups(j - 1) \o ExpectedGroup(j)

\* C2: the result is the concatenation, in original index order, of the group
\* of each original statement ([statement as f left it] for None, [Nop] for an
\* empty iterator, the replacements in iterator order otherwise); statements
\* of a later original never precede those of an earlier one and no filler
\* Nop of the resize step is left.
C2_ConcatenationOfGroups ==
    pc = "done" =>
        /\ statements = ConcatGroups(Len(f_plan))
        /\ \A a, b \in 1..Len(statements) :
              a < b => statements[a].source_info <= statements[b].source_info
        /\ \A a \in 1..Len(statements) : statements[a] # GapFiller

\* A run with two splices and, between them, an edited and a removed statement.
C2_Witness ==
    /\ pc = "done"
    /\ Len(f_plan) = 3
    /\ f_plan[1].some /\ f_plan[1].len = 2
    /\ f_plan[2].some /\ f_plan[2].len = 0
    /\ f_plan[3].some /\ f_plan[3].len = 3
    /\ statements[3] = Stmt("Nop", 2, 0)
    /\ statements[6] = Stmt("Assign", 3, 3)

\* f yields None, or zero, one or three replacements, for every statement.
ZeroOneThree ==
    \A j \in 1..Len(f_plan) : f_plan[j].some => f_plan[j].len \in {0, 1, 3}

CountZero == Cardinality({j \in 1..Len(f_plan) : f_plan[j].some /\ f_plan[j].len = 0})

CountThree == Cardinality({j \in 1..Len(f_plan) : f_plan[j].some /\ f_plan[j].len = 3})

\* C3 as stated: with 0, 1 or 3 replacements per statement the result has
\* N - #zero + 2 * #three statements.
C3_AsStated ==
    (pc = "done" /\ ZeroOneThree) =>
        Len(statements) = Len(f_plan) - CountZero + 2 * CountThree

\* C3 as amended: with 0, 1 or 3 replacements per statement the result has
\* N + 2 * #three statements; a statement with zero replacements stays in
\* place as a Nop and is still counted.
C3_CountKeepsNops ==
    (pc = "done" /\ ZeroOneThree) =>
        /\ Len(statements) = Len(f_plan) + 2 * CountThree
        /\ Cardinality({a \in 1..Len(statements) : statements[a].kind = "Nop"}) = CountZero

\* A run with one statement removed, one replaced by one and one by three.
C3_Witness ==
    /\ pc = "done"
    /\ ZeroOneThree
    /\ Len(f_plan) = 3
    /\ CountZero = 1
    /\ CountThree = 1
    /\ \E j \in 1..3 : f_plan[j].some /\ f_plan[j].len = 1
    /\ Len(statements) = 5

\* -------------------------------------------------------------- Body: claims
\* A Body exists: one of the constructors returned it.
Live == origin \in {"new", "cfg_only"}

\* C5 as stated: in every Body, from Body::new or Body::new_cfg_only and after
\* any operations, arg_count is strictly less than the number of locals.
C5_AsStated == Live => arg_count < Len(local_decls)

\* C5 as amended: in every Body built by Body::new, also after
\* drain_vars_and_temps, arg_count is strictly less than the number of locals;
\* a Body built by Body::new_cfg_only has no locals and arg_count 0.
C5_ArgCountBelowLocals ==
    /\ origin = "new" => arg_count < Len(local_decls)
    /\ origin = "cfg_only" => (arg_count = 0 /\ Len(local_decls) = 0)

\* A Body from Body::new with one argument whose one temporary was drained.
C5_Witness ==
    /\ origin = "new"
    /\ ret.op = "drain_vars_and_temps"
    /\ ret.val.tag = "Ok"
    /\ Len(ret.val.v) = 1
    /\ arg_count = 1
    /\ Len(local_decls) = 2

\* C6: in every Body local 0 is mutable; Body::new builds no Body whose local
\* 0 is immutable and local_kind(Local(0)) never meets an immutable local 0.
C6_ReturnPlaceMutable ==
    /\ origin = "new" => local_decls[1].mutability = "Mut"
    /\ (Live /\ ret.op = "local_kind" /\ ret.arg = 0) => local_decls[1].mutability = "Mut"

\* C7: Body::new fails, producing no Body, whenever local_decls.len() <=
\* arg_count; otherwise it returns a Body in phase Built with pass_count 0, no
\* injection phase, no required constants and the block, local and scope
\* tables it was given.
C7_NewContract ==
    ret.op = "Body::new" =>
        IF Len(ret.arg.local_decls) <= ret.arg.arg_count
        THEN /\ ret.val.tag = "Panic"
             /\ origin = "failed"
        ELSE /\ ret.val.tag = "Ok"
             /\ origin = "new"
             /\ phase = MirPhase_Built
             /\ pass_count = 0
             /\ injection_phase = None
             /\ required_consts = <<>>
             /\ basic_blocks = ret.arg.basic_blocks
             /\ local_decls = ret.arg.local_decls
             /\ source_scopes = ret.arg.source_scopes
             /\ arg_count = ret.arg.arg_count

\* Body::new returned a Body with two arguments, three locals and two scopes.
C7_Witness ==
    /\ ret.op = "Body::new"
    /\ ret.val.tag = "Ok"
    /\ origin = "new"
    /\ arg_count = 2
    /\ Len(local_decls) = 3
    /\ Len(source_scopes) = 2
    /\ Len(basic_blocks) = 1

\* The kind the index and arg_count alone give a local.
KindByIndex(index, argc) ==
    IF index = 0 THEN "ReturnPointer"
    ELSE IF index <= argc THEN "Arg"
    ELSE "Temp"

\* C8: local_kind(l) is decided by l's index and arg_count alone, for every
\* local of every Body: ReturnPointer for 0, Arg for 1..arg_count, Temp above.
C8_KindByIndexOnly ==
    (Live /\ ret.op = "local_kind") => ret.val.tag = KindByIndex(ret.arg, arg_count)

\* C9: in a block with k statements and a terminator, stmt_at gives Left(the
\* statement at the index) for an index below k and Right(the terminator) for
\* the index k, which is the index terminator_loc gives.
C9_StmtAt ==
    (Live /\ ret.op = "stmt_at") =>
        LET block_data == basic_blocks[ret.arg.block + 1]
            k == Len(block_data.statements)
            i == ret.arg.statement_index
        IN  is_some(block_data.terminator) =>
                /\ i < k => (/\ ret.val.tag = "Left"
                             /\ ret.val.v = block_data.statements[i + 1])
                /\ i = k => (/\ ret.val.tag = "Right"
                             /\ ret.val.v = unwrap(block_data.terminator)
                             /\ ret.arg = terminator_loc(basic_blocks, ret.arg.block))

\* stmt_at returned the terminator of the second block, behind two statements.
C9_Witness ==
    /\ Live
    /\ ret.op = "stmt_at"
    /\ ret.arg = Location(1, 2)
    /\ Len(basic_blocks[2].statements) = 2
    /\ ret.val.tag = "Right"
    /\ ret.val.v.kind = "Return"

\* C10: source_info gives the statement's source info for an index below the
\* statement count, the terminator's for the index equal to it, and fails for
\* an index above it; for an index in range it is the source info of what
\* stmt_at returns there (and fails where stmt_at fails, the terminator being
\* unset).
C10_SourceInfo ==
    (Live /\ ret.op = "source_info") =>
        LET block_data == basic_blocks[ret.arg.block + 1]
            k == Len(block_data.statements)
            i == ret.arg.statement_index
            at == stmt_at(basic_blocks, ret.arg)
        IN  /\ i < k => (/\ ret.val.tag = "Ok"
                         /\ ret.val.v = block_data.statements[i + 1].source_info)
            /\ (i = k /\ is_some(block_data.terminator)) =>
                        (/\ ret.val.tag = "Ok"
                         /\ ret.val.v = unwrap(block_data.terminator).source_info)
            /\ i > k => ret.val.tag = "Panic"
            /\ i <= k => IF at.tag = "Panic"
                         THEN ret.val.tag = "Panic"
                         ELSE /\ ret.val.tag = "Ok"
                              /\ ret.val.v = at.v.source_info

\* source_info returned the terminator's source info behind one statement.
C10_Witness ==
    /\ Live
    /\ ret.op = "source_info"
    /\ ret.arg = Location(1, 1)
    /\ Len(basic_blocks[2].statements) = 1
    /\ ret.val.tag = "Ok"
    /\ ret.val.v = unwrap(basic_blocks[2].terminator).source_info
    /\ ret.val.v # basic_blocks[2].statements[1].source_info

\* ------------------------------------------------------- graph store: claims
\* C4: a memoized predecessor table or dominator tree is absent or equal to
\* the one computed from the current block list, and a predecessors() or
\* dominators() call made after mutations through basic_blocks_mut or
\* IndexMut returns the table of the graph as it is at that call.
C4_CacheCoherence ==
    /\ is_some(preds_cache) => unwrap(preds_cache) = ComputePredecessors(basic_blocks)
    /\ is_some(doms_cache) => unwrap(doms_cache) = ComputeDominators(basic_blocks)
    /\ ret.op = "predecessors" => ret.val.v = ComputePredecessors(basic_blocks)
    /\ ret.op = "dominators" => ret.val.v = ComputeDominators(basic_blocks)
    /\ borrow # NoBorrow => (preds_cache = None /\ doms_cache = None)

\* predecessors() answers for a graph that only mutations can have produced
\* (a second block entered twice from the first), with dominators memoized.
C4_Witness ==
    /\ ret.op = "predecessors"
    /\ Len(basic_blocks) = 2
    /\ ret.val.v = <<<<>>, <<0, 0>>>>
    /\ is_some(doms_cache)
    /\ unwrap(doms_cache) = <<{0}, {0, 1}>>

\* =================================================================== phases
\* MirPhase: Built, Analysis(AnalysisPhase), Runtime(RuntimePhase).
MirPhase_Analysis(sub) == [dialect |-> "Analysis", sub |-> sub]
MirPhase_Runtime(sub) == [dialect |-> "Runtime", sub |-> sub]

MirPhases ==
    {MirPhase_Built}
    \cup {MirPhase_Analysis(s) : s \in {"Initial", "PostCleanup"}}
    \cup {MirPhase_Runtime(s) : s \in {"Initial", "PostCleanup", "Optimized"}}

\* `*phase as usize`: the discriminant of a sub-phase, its place in the
\* declaration of AnalysisPhase / RuntimePhase.
SubOrdinal(sub) ==
    CASE sub = "Initial" -> 0
      [] sub = "PostCleanup" -> 1
      [] sub = "Optimized" -> 2

\* The place of a dialect in the declaration of MirPhase.
DialectOrdinal(dialect) ==
    CASE dialect = "Built" -> 0
      [] dialect = "Analysis" -> 1
      [] dialect = "Runtime" -> 2

BUILT_PHASE_COUNT == 1
ANALYSIS_PHASE_COUNT == 2

\* phase_index without the count of the dialects before the phase's own.
phase_index_within_dialect(p) ==
    CASE p.dialect = "Built" -> 1
      [] p.dialect = "Analysis" -> 1 + SubOrdinal(p.sub)
      [] p.dialect = "Runtime" -> 1 + SubOrdinal(p.sub)

\* MirPhase::phase_index
phase_index(p) ==
    CASE p.dialect = "Built" -> 1
      [] p.dialect = "Analysis" -> 1 + BUILT_PHASE_COUNT + SubOrdinal(p.sub)
      [] p.dialect = "Runtime" ->
            1 + BUILT_PHASE_COUNT + ANALYSIS_PHASE_COUNT + SubOrdinal(p.sub)

\* a > b in the derived ordering of MirPhase: by dialect, then by sub-phase.
MirPhase_gt(a, b) ==
    \/ DialectOrdinal(a.dialect) > DialectOrdinal(b.dialect)
    \/ /\ a.dialect = b.dialect
       /\ a.dialect # "Built"
       /\ SubOrdinal(a.sub) > SubOrdinal(b.sub)

\* should_skip that also skips a body whose phase is its injection phase.
should_skip_at_injection(inj, ph) ==
    IF ~is_some(inj) THEN FALSE
    ELSE unwrap(inj) = ph \/ MirPhase_gt(unwrap(inj), ph)

\* should_skip that skips the phases after the injection phase.
should_skip_after_injection(inj, ph) ==
    IF ~is_some(inj) THEN FALSE
    ELSE MirPhase_gt(ph, unwrap(inj))

\* Body::should_skip, of a body with this injection_phase and this phase.
should_skip(inj, ph) ==
    IF ~is_some(inj) THEN FALSE
    ELSE MirPhase_gt(unwrap(inj), ph)

\* ------------------------------------------------------------------ strings
\* A string is the sequence of its characters.
AsciiUpperToLower ==
    "A" :> "a" @@ "B" :> "b" @@ "C" :> "c" @@ "D" :> "d" @@ "E" :> "e" @@
    "F" :> "f" @@ "G" :> "g" @@ "H" :> "h" @@ "I" :> "i" @@ "J" :> "j" @@
    "K" :> "k" @@ "L" :> "l" @@ "M" :> "m" @@ "N" :> "n" @@ "O" :> "o" @@
    "P" :> "p" @@ "Q" :> "q" @@ "R" :> "r" @@ "S" :> "s" @@ "T" :> "t" @@
    "U" :> "u" @@ "V" :> "v" @@ "W" :> "w" @@ "X" :> "x" @@ "Y" :> "y" @@
    "Z" :> "z"

AsciiLowerToUpper ==
    "a" :> "A" @@ "b" :> "B" @@ "c" :> "C" @@ "d" :> "D" @@ "e" :> "E" @@
    "f" :> "F" @@ "g" :> "G" @@ "h" :> "H" @@ "i" :> "I" @@ "j" :> "J" @@
    "k" :> "K" @@ "l" :> "L" @@ "m" :> "M" @@ "n" :> "N" @@ "o" :> "O" @@
    "p" :> "P" @@ "q" :> "Q" @@ "r" :> "R" @@ "s" :> "S" @@ "t" :> "T" @@
    "u" :> "U" @@ "v" :> "V" @@ "w" :> "W" @@ "x" :> "X" @@ "y" :> "Y" @@
    "z" :> "Z"

\* str::to_ascii_lowercase: A-Z become a-z, every other character stays.
to_ascii_lowercase(s) ==
    [i \in 1..Len(s) |->
        IF s[i] \in DOMAIN AsciiUpperToLower THEN AsciiUpperToLower[s[i]]
        ELSE s[i]]

\* The string literals that the parse functions match against.
Str ==
    [built |-> <<"b", "u", "i", "l", "t">>,
     analysis |-> <<"a", "n", "a", "l", "y", "s", "i", "s">>,
     runtime |-> <<"r", "u", "n", "t", "i", "m", "e">>,
     initial |-> <<"i", "n", "i", "t", "i", "a", "l">>,
     post_cleanup |-> <<"p", "o", "s", "t", "_", "c", "l", "e", "a", "n", "u", "p">>,
     post_dash_cleanup |-> <<"p", "o", "s", "t", "-", "c", "l", "e", "a", "n", "u", "p">>,
     postcleanup |-> <<"p", "o", "s", "t", "c", "l", "e", "a", "n", "u", "p">>,
     optimized |-> <<"o", "p", "t", "i", "m", "i", "z", "e", "d">>]

\* AnalysisPhase::parse
AnalysisPhase_parse(ph) ==
    IF ~is_some(ph) THEN Outcome("Ok", "Initial")
    ELSE LET lower == to_ascii_lowercase(unwrap(ph)) IN
         CASE lower = Str.initial -> Outcome("Ok", "Initial")
           [] lower \in {Str.post_cleanup, Str.post_dash_cleanup, Str.postcleanup} ->
                 Outcome("Ok", "PostCleanup")
           [] OTHER -> Panic

\* RuntimePhase::parse
RuntimePhase_parse(ph) ==
    IF ~is_some(ph) THEN Outcome("Ok", "Initial")
    ELSE LET lower == to_ascii_lowercase(unwrap(ph)) IN
         CASE lower = Str.initial -> Outcome("Ok", "Initial")
           [] lower \in {Str.post_cleanup, Str.post_dash_cleanup, Str.postcleanup} ->
                 Outcome("Ok", "PostCleanup")
           [] lower = Str.optimized -> Outcome("Ok", "Optimized")
           [] OTHER -> Panic

\* MirPhase::parse that takes the dialect `built` with any phase string.
MirPhase_parse_built_any_phase(dialect, ph) ==
    LET lower == to_ascii_lowercase(dialect) IN
    CASE lower = Str.built -> Outcome("Ok", MirPhase_Built)
      [] lower = Str.analysis ->
            LET sub == AnalysisPhase_parse(ph) IN
            IF sub.tag = "Ok" THEN Outcome("Ok", MirPhase_Analysis(sub.v)) ELSE Panic
      [] lower = Str.runtime ->
            LET sub == RuntimePhase_parse(ph) IN
            IF sub.tag = "Ok" THEN Outcome("Ok", MirPhase_Runtime(sub.v)) ELSE Panic
      [] OTHER -> Panic

\* MirPhase::parse
MirPhase_parse(dialect, ph) ==
    LET lower == to_ascii_lowercase(dialect) IN
    CASE lower = Str.built ->
            IF ~is_some(ph) THEN Outcome("Ok", MirPhase_Built) ELSE Panic
      [] lower = Str.analysis ->
            LET sub == AnalysisPhase_parse(ph) IN
            IF sub.tag = "Ok" THEN Outcome("Ok", MirPhase_Analysis(sub.v)) ELSE Panic
      [] lower = Str.runtime ->
            LET sub == RuntimePhase_parse(ph) IN
            IF sub.tag = "Ok" THEN Outcome("Ok", MirPhase_Runtime(sub.v)) ELSE Panic
      [] OTHER -> Panic

\* The string w with the letters at the positions in S in upper case.
UpperAt(w, S) ==
    [i \in 1..Len(w) |->
        IF i \in S /\ w[i] \in DOMAIN AsciiLowerToUpper THEN AsciiLowerToUpper[w[i]]
        ELSE w[i]]

\* w in lower case, capitalised, in upper case and in alternating case.
CaseVariants(w) ==
    {UpperAt(w, S) : S \in {{}, {1}, 1..Len(w), {i \in 1..Len(w) : i % 2 = 0}}}

\* The dialect strings handed to parse: the three dialects in every case
\* variant, and strings that name no dialect.
DialectInputs ==
    UNION {CaseVariants(w) : w \in {Str.built, Str.analysis, Str.runtime}}
    \cup {<<>>, <<"m", "i", "r">>, Str.built \o <<" ">>, Str.optimized}

\* The phase arguments handed to parse: none, the phase names in every case
\* variant, and strings that name no phase.
PhaseInputs ==
    {None}
    \cup {Some(s) : s \in UNION {CaseVariants(w) : w \in
              {Str.initial, Str.post_cleanup, Str.post_dash_cleanup,
               Str.postcleanup, Str.optimized}}}
    \cup {Some(s) : s \in {<<>>, <<"p", "o", "s", "t">>, Str.initial \o <<" ">>,
                           Str.built}}

\* ------------------------------------------------------- the phase pipeline
\* The pass driver moves the body to a later phase and restarts pass_count.
AdvancePhase ==
    /\ origin = "new"
    /\ \E p \in MirPhases :
          /\ phase_index(p) > phase_index(phase)
          /\ phase' = p
    /\ pass_count' = 0
    /\ ret' = Call("advance_phase", phase', Outcome("Ok", <<>>))
    /\ UNCHANGED <<origin, graphVars, source_scopes, local_decls, arg_count,
                   injection_phase, required_consts, debug_assertions, expandVars, extraVars>>

\* body.should_skip()
ShouldSkip ==
    /\ origin = "new"
    /\ ret' = Call("should_skip", <<>>,
                   Outcome("Ok", should_skip(injection_phase, phase)))
    /\ UNCHANGED <<origin, graphVars, phase, pass_count, source_scopes, local_decls,
                   arg_count, injection_phase, required_consts, debug_assertions,
                   expandVars, extraVars>>

\* p.phase_index()
PhaseIndex ==
    /\ \E p \in MirPhases :
          ret' = Call("phase_index", p, Outcome("Ok", phase_index(p)))
    /\ UNCHANGED <<origin, graphVars, phase, pass_count, source_scopes, local_decls,
                   arg_count, injection_phase, required_consts, debug_assertions,
                   expandVars, extraVars>>

\* MirPhase::parse(dialect, phase)
Parse ==
    /\ \E dialect \in DialectInputs, ph \in PhaseInputs :
          ret' = Call("MirPhase::parse", [dialect |-> dialect, phase |-> ph],
                      MirPhase_parse(dialect, ph))
    /\ UNCHANGED <<origin, graphVars, phase, pass_count, source_scopes, local_decls,
                   arg_count, injection_phase, required_consts, debug_assertions,
                   expandVars, extraVars>>

\* A Body fresh from Body::new, whose builder has set injection_phase or left
\* it None, before the first pass runs.
InitPhase ==
    /\ origin = "new"
    /\ basic_blocks = NewBody(GraphInput).graph.basic_blocks
    /\ preds_cache = NewBody(GraphInput).graph.preds_cache
    /\ doms_cache = NewBody(GraphInput).graph.doms_cache
    /\ borrow = NoBorrow
    /\ phase = NewBody(GraphInput).phase
    /\ pass_count = NewBody(GraphInput).pass_count
    /\ source_scopes = NewBody(GraphInput).source_scopes
    /\ local_decls = NewBody(GraphInput).local_decls
    /\ arg_count = NewBody(GraphInput).arg_count
    /\ injection_phase \in {None} \cup {Some(p) : p \in MirPhases}
    /\ required_consts = NewBody(GraphInput).required_consts
    /\ debug_assertions \in BOOLEAN
    /\ ret = Call("Body::new", GraphInput, Outcome("Ok", <<>>))
    /\ statements = <<>>
    /\ f_plan = <<>>
    /\ splices = <<>>
    /\ extra_stmts = 0
    /\ idx = 0
    /\ gap = [start |-> 0, end |-> 0]
    /\ pc = "idle"
    /\ SearchIdle
    /\ CodecIdle
    /\ LaterIdle

NextPhase == AdvancePhase \/ ShouldSkip \/ PhaseIndex

SpecPhase == InitPhase /\ [][NextPhase]_vars

\* parse takes no Body: a developer tool hands it the strings of an attribute.
InitParse ==
    /\ NoBody
    /\ debug_assertions = FALSE
    /\ statements = <<>>
    /\ f_plan = <<>>
    /\ splices = <<>>
    /\ extra_stmts = 0
    /\ idx = 0
    /\ gap = [start |-> 0, end |-> 0]
    /\ pc = "idle"
    /\ SearchIdle
    /\ CodecIdle
    /\ LaterIdle

NextParse == Parse

SpecParse == InitParse /\ [][NextParse]_vars

\* ----------------------------------------------------------- phase claims
\* The canonical order of the phases, earliest first.
CanonicalPhases ==
    <<MirPhase_Built,
      MirPhase_Analysis("Initial"), MirPhase_Analysis("PostCleanup"),
      MirPhase_Runtime("Initial"), MirPhase_Runtime("PostCleanup"),
      MirPhase_Runtime("Optimized")>>

\* p comes strictly after q in the canonical order.
LaterInCanonicalOrder(p, q) ==
    \E i, j \in 1..Len(CanonicalPhases) :
        i < j /\ CanonicalPhases[i] = q /\ CanonicalPhases[j] = p

\* C11: phase_index is strictly increasing along the canonical order Built,
\* Analysis(Initial), Analysis(PostCleanup), Runtime(Initial),
\* Runtime(PostCleanup), Runtime(Optimized), and maps these six phases one to
\* one onto 1..=6: every call returns the phase's place in that order.
C11_PhaseIndexDense ==
    /\ \A i, j \in 1..Len(CanonicalPhases) :
          i < j => phase_index(CanonicalPhases[i]) < phase_index(CanonicalPhases[j])
    /\ \A p, q \in MirPhases : phase_index(p) = phase_index(q) => p = q
    /\ {phase_index(p) : p \in MirPhases} = 1..6
    /\ ret.op = "phase_index" =>
          /\ ret.val.v \in 1..6
          /\ CanonicalPhases[ret.val.v] = ret.arg

C11_Witness ==
    /\ ret.op = "phase_index"
    /\ ret.arg = MirPhase_Runtime("Optimized")
    /\ ret.val.v = 6

\* C12: should_skip returns true exactly when injection_phase is Some(p) and
\* p is strictly later than the body's phase in the canonical order, which
\* is the same as phase_index(p) > phase_index(phase); it returns false when
\* injection_phase is None and when p equals or precedes the phase.
C12_ShouldSkip ==
    ret.op = "should_skip" =>
        /\ ret.val.v = (/\ is_some(injection_phase)
                        /\ LaterInCanonicalOrder(unwrap(injection_phase), phase))
        /\ ret.val.v = (/\ is_some(injection_phase)
                        /\ phase_index(unwrap(injection_phase)) > phase_index(phase))

C12_Witness ==
    /\ ret.op = "should_skip"
    /\ ret.val.v = TRUE
    /\ phase = MirPhase_Analysis("PostCleanup")
    /\ injection_phase = Some(MirPhase_Runtime("Initial"))

\* C13: while the driver only moves phase forward and injection_phase stays
\* as it is, should_skip is true in every state whose phase is before the
\* injection phase and false in every state whose phase has reached it; once
\* it is false no later step makes it true again; and a body without an
\* injection phase is never skipped.
C13_GatingMonotone ==
    /\ [](should_skip(injection_phase, phase) =
             (/\ is_some(injection_phase)
              /\ LaterInCanonicalOrder(unwrap(injection_phase), phase)))
    /\ [][~should_skip(injection_phase, phase) =>
             ~should_skip(injection_phase, phase)']_vars
    /\ [](~is_some(injection_phase) => ~should_skip(injection_phase, phase))

C13_Witness ==
    /\ ret.op = "advance_phase"
    /\ injection_phase = Some(MirPhase_Runtime("Initial"))
    /\ phase = MirPhase_Runtime("Initial")
    /\ ~should_skip(injection_phase, phase)

\* s is the lower-case word w up to the case of its ASCII letters.
EqIgnoreAsciiCase(s, w) ==
    /\ Len(s) = Len(w)
    /\ \A i \in 1..Len(w) :
          \/ s[i] = w[i]
          \/ w[i] \in DOMAIN AsciiLowerToUpper /\ s[i] = AsciiLowerToUpper[w[i]]

\* The table of parse: the phase a (dialect, phase) pair stands for, or
\* a fatal failure.
ParseTable(dialect, ph) ==
    LET IsPhase(w) == is_some(ph) /\ EqIgnoreAsciiCase(unwrap(ph), w)
        initial == ~is_some(ph) \/ IsPhase(Str.initial)
        post_cleanup == \/ IsPhase(Str.post_cleanup)
                        \/ IsPhase(Str.post_dash_cleanup)
                        \/ IsPhase(Str.postcleanup)
        is_analysis == EqIgnoreAsciiCase(dialect, Str.analysis)
        is_runtime == EqIgnoreAsciiCase(dialect, Str.runtime)
    IN  CASE EqIgnoreAsciiCase(dialect, Str.built) /\ ~is_some(ph) ->
                Outcome("Ok", MirPhase_Built)
          [] is_analysis /\ initial -> Outcome("Ok", MirPhase_Analysis("Initial"))
          [] is_analysis /\ post_cleanup ->
                Outcome("Ok", MirPhase_Analysis("PostCleanup"))
          [] is_runtime /\ initial -> Outcome("Ok", MirPhase_Runtime("Initial"))
          [] is_runtime /\ post_cleanup ->
                Outcome("Ok", MirPhase_Runtime("PostCleanup"))
          [] is_runtime /\ IsPhase(Str.optimized) ->
                Outcome("Ok", MirPhase_Runtime("Optimized"))
          [] OTHER -> Panic

\* C14: MirPhase::parse is case-insensitive in both arguments and follows
\* the table: `built` with no phase is Built; `analysis` or `runtime` with no
\* phase or `initial` is the Initial sub-phase; `post_cleanup`, `post-cleanup`
\* and `postcleanup` are PostCleanup; `optimized` is Runtime(Optimized) for
\* `runtime` only; every other input fails fatally.
C14_ParseTable ==
    ret.op = "MirPhase::parse" =>
        LET expected == ParseTable(ret.arg.dialect, ret.arg.phase) IN
        /\ ret.val.tag = expected.tag
        /\ ret.val.tag = "Ok" => ret.val.v = expected.v

C14_Witness ==
    /\ ret.op = "MirPhase::parse"
    /\ ret.arg.dialect = UpperAt(Str.runtime, {1})
    /\ ret.arg.phase = Some(UpperAt(Str.post_dash_cleanup, 1..Len(Str.post_dash_cleanup)))
    /\ ret.val.tag = "Ok"
    /\ ret.val.v = MirPhase_Runtime("PostCleanup")

\* ================================================================ locations
\* The terminators of the graphs the location queries run on: a return, a
\* goto, or a two-way switch (the predecessor lists do not depend on the
\* order of a switch's two targets, so one order is drawn).
CfgTerminators(n) ==
    {Some(Terminator("Return", DUMMY_SP, <<>>))}
    \cup {Some(Terminator("Goto", DUMMY_SP, <<t>>)) : t \in 0..(n - 1)}
    \cup {Some(Terminator("SwitchInt", DUMMY_SP, <<ab[1], ab[2]>>)) :
             ab \in {p \in (0..(n - 1)) \X (0..(n - 1)) : p[1] <= p[2]}}

\* A block of one statement and a terminator.
CfgBlock(term) == BasicBlockData(<<OrigStmt(1)>>, term)

\* entry -> {b1, b2} -> merge
DiamondCfg ==
    <<CfgBlock(Some(Terminator("SwitchInt", DUMMY_SP, <<1, 2>>))),
      CfgBlock(Some(Terminator("Goto", DUMMY_SP, <<3>>))),
      CfgBlock(Some(Terminator("Goto", DUMMY_SP, <<3>>))),
      CfgBlock(Some(Terminator("Return", DUMMY_SP, <<>>)))>>

\* The block tables handed to Body::new: every graph of up to MaxBlocks
\* blocks, cycles, self-loops and doubled edges included, and the diamond.
CfgInputs ==
    UNION {{[j \in 1..n |-> CfgBlock(ts[j])] : ts \in [1..n -> CfgTerminators(n)]} :
              n \in 1..MaxBlocks}
    \cup {DiamondCfg}

\* The locations of the Body: each statement and each terminator.
CfgLocations ==
    {l \in {Location(b, i) : b \in 0..(Len(basic_blocks) - 1), i \in 0..1} :
        l.statement_index <= Len(basic_blocks[l.block + 1].statements)}

\* The same-block test with <= for <.
earlier_or_same_in_block(self, other) ==
    /\ self.block = other.block
    /\ self.statement_index <= other.statement_index

\* is_predecessor_of: self is in other's block and is an earlier statement.
earlier_in_block(self, other) ==
    /\ self.block = other.block
    /\ self.statement_index < other.statement_index

\* An insert that reports every block as seen before.
visited_insert_never_new(set, block) ==
    [inserted |-> FALSE, set |-> set \cup {block}]

\* An insert that reports every block as new.
visited_insert_always_new(set, block) ==
    [inserted |-> TRUE, set |-> set \cup {block}]

\* visited.insert(block): whether the block is new, and the set afterwards.
visited_insert(set, block) ==
    [inserted |-> block \notin set, set |-> set \cup {block}]

\* A queue that is never extended.
queue_keep(q, predecessors, block) == q

\* queue.extend(predecessors[block].iter().cloned())
queue_extend(q, predecessors, block) == q \o predecessors[block + 1]

\* Location::is_predecessor_of, up to the loop: the early return, or the
\* queue seeded with the predecessors of other's block.
IsPredecessorOf ==
    /\ origin = "new"
    /\ ret.val.tag # "Running"
    /\ LET self == locations.self
           other == locations.other
       IN  IF earlier_in_block(self, other)
           THEN /\ ret' = Call("is_predecessor_of", locations, Outcome("Ok", TRUE))
                /\ UNCHANGED <<preds_cache, queue, visited>>
           ELSE /\ preds_cache' = IF is_some(preds_cache) THEN preds_cache
                                  ELSE Some(ComputePredecessors(basic_blocks))
                /\ queue' = unwrap(preds_cache')[other.block + 1]
                /\ visited' = {}
                /\ ret' = Call("is_predecessor_of", locations,
                               Outcome("Running", <<>>))
    /\ UNCHANGED <<locations, origin, basic_blocks, doms_cache, borrow, phase, pass_count,
                   source_scopes, local_decls, arg_count, injection_phase,
                   required_consts, debug_assertions, expandVars, codecVars, laterVars>>

\* One turn of `while let Some(block) = queue.pop()`, or the return of false
\* when the queue is empty.
SearchLoop ==
    /\ ret.val.tag = "Running"
    /\ IF queue = <<>>
       THEN /\ ret' = [ret EXCEPT !.val = Outcome("Ok", FALSE)]
            /\ queue' = <<>>
            /\ visited' = {}
       ELSE LET block == queue[Len(queue)]
                popped == SubSeq(queue, 1, Len(queue) - 1)
                insert == visited_insert(visited, block)
            IN  IF insert.inserted
                THEN IF ret.arg.self.block = block
                     THEN /\ ret' = [ret EXCEPT !.val = Outcome("Ok", TRUE)]
                          /\ queue' = <<>>
                          /\ visited' = {}
                     ELSE /\ queue' = queue_extend(popped, unwrap(preds_cache), block)
                          /\ visited' = insert.set
                          /\ UNCHANGED ret
                ELSE /\ queue' = popped
                     /\ visited' = insert.set
                     /\ UNCHANGED ret
    /\ UNCHANGED <<locations, origin, graphVars, phase, pass_count, source_scopes,
                   local_decls, arg_count, injection_phase, required_consts,
                   debug_assertions, expandVars, codecVars, laterVars>>

\* Dominators::dominates(a, b) on the table of dominator sets.
Dominators_dominates(dominators, a, b) == a \in dominators[b + 1]

\* The same-block test with < for <=.
Location_dominates_strict(self, other, dominators) ==
    IF self.block = other.block
    THEN self.statement_index < other.statement_index
    ELSE Dominators_dominates(dominators, self.block, other.block)

\* Location::dominates
Location_dominates(self, other, dominators) ==
    IF self.block = other.block
    THEN self.statement_index <= other.statement_index
    ELSE Dominators_dominates(dominators, self.block, other.block)

\* The dominator tables a caller may pass: the Body's own, or one computed
\* for another graph, in which no block of this one dominates any.
DominatorTables ==
    {ComputeDominators(basic_blocks), [b1 \in 1..Len(basic_blocks) |-> {}]}

\* A call of Location::dominates.
Dominates ==
    /\ origin = "new"
    /\ ret.val.tag # "Running"
    /\ \E dominators \in DominatorTables :
          ret' = Call("dominates",
                      [self |-> locations.self, other |-> locations.other,
                       dominators |-> dominators],
                      Outcome("Ok", Location_dominates(locations.self, locations.other,
                                                       dominators)))
    /\ UNCHANGED <<origin, graphVars, phase, pass_count, source_scopes, local_decls,
                   arg_count, injection_phase, required_consts, debug_assertions,
                   expandVars, extraVars>>

\* The arguments of Body::new around a block table.
CfgInput(blocks) ==
    [basic_blocks |-> blocks,
     source_scopes |-> <<None>>,
     local_decls |-> <<LocalDecl_new>>,
     arg_count |-> 0]

\* The Body that Body::new returns for any of the graphs, and a caller
\* holding any two of its locations.
InitLoc ==
    /\ origin = "new"
    /\ \E blocks \in CfgInputs :
          /\ basic_blocks = NewBody(CfgInput(blocks)).graph.basic_blocks
          /\ ret = Call("Body::new", CfgInput(blocks), Outcome("Ok", <<>>))
    /\ locations \in [self : CfgLocations, other : CfgLocations]
    /\ preds_cache = None
    /\ doms_cache = None
    /\ borrow = NoBorrow
    /\ phase = MirPhase_Built
    /\ pass_count = 0
    /\ source_scopes = <<None>>
    /\ local_decls = <<LocalDecl_new>>
    /\ arg_count = 0
    /\ injection_phase = None
    /\ required_consts = <<>>
    /\ debug_assertions = FALSE
    /\ statements = <<>>
    /\ f_plan = <<>>
    /\ splices = <<>>
    /\ extra_stmts = 0
    /\ idx = 0
    /\ gap = [start |-> 0, end |-> 0]
    /\ pc = "idle"
    /\ queue = <<>>
    /\ visited = {}
    /\ CodecIdle
    /\ LaterIdle

NextLoc == IsPredecessorOf \/ SearchLoop \/ Dominates

SpecLoc == InitLoc /\ [][NextLoc]_vars

\* --------------------------------------------------------- location claims
\* There is a path of one or more terminator edges from block a to block b.
PathExists(blocks, a, b) ==
    b \in ReachWithin(blocks, StepFrom(blocks, {a}, {}), {}, Len(blocks))

\* No block of the graph lies on a cycle.
Acyclic(blocks) ==
    \A b \in 0..(Len(blocks) - 1) : ~PathExists(blocks, b, b)

\* Block a is on every path from START_BLOCK to the reachable block b.
BlockDominates(blocks, a, b) ==
    /\ b \in ReachableAvoiding(blocks, {})
    /\ a = b \/ b \notin ReachableAvoiding(blocks, {a})

\* The last call was is_predecessor_of and it has returned.
IsPredecessorOfReturned ==
    ret.op = "is_predecessor_of" /\ ret.val.tag = "Ok"

\* C15 as stated: for two locations of the same block the result of
\* is_predecessor_of is true exactly when self.statement_index is less than
\* other.statement_index, in every graph, cyclic ones included.
C15_AsStated ==
    (IsPredecessorOfReturned /\ ret.arg.self.block = ret.arg.other.block) =>
        ret.val.v = (ret.arg.self.statement_index < ret.arg.other.statement_index)

\* C15: for two locations of the same block, is_predecessor_of returns true
\* when self.statement_index is less than other.statement_index, and
\* otherwise returns true exactly when the block lies on a cycle of the graph
\* (a self-loop included).
C15_SameBlock ==
    (IsPredecessorOfReturned /\ ret.arg.self.block = ret.arg.other.block) =>
        ret.val.v = (\/ ret.arg.self.statement_index < ret.arg.other.statement_index
                     \/ PathExists(basic_blocks, ret.arg.self.block,
                                   ret.arg.self.block))

C15_Witness ==
    /\ IsPredecessorOfReturned
    /\ ret.arg.self.block = ret.arg.other.block
    /\ ret.arg.self.statement_index > ret.arg.other.statement_index
    /\ PathExists(basic_blocks, ret.arg.self.block, ret.arg.self.block)
    /\ ret.val.v = TRUE

\* C16: is_predecessor_of terminates on every finite graph, cycles,
\* self-loops and doubled predecessor entries included: every turn of the
\* loop that does not return either adds a block of the graph to visited, or
\* leaves visited alone and shortens the queue, so a block's predecessor
\* list is put on the queue at most once; and while the call is running a
\* further turn can always be taken.
C16_SearchTerminates ==
    /\ [](visited \subseteq 0..(Len(basic_blocks) - 1))
    /\ [](ret.val.tag = "Running" => ENABLED SearchLoop)
    /\ [][(ret.val.tag = "Running" /\ ret'.val.tag = "Running") =>
             \/ visited \subseteq visited' /\ visited' # visited
             \/ visited' = visited /\ Len(queue') < Len(queue)]_vars

C16_Witness ==
    /\ ret.val.tag = "Running"
    /\ queue # <<>>
    /\ queue[Len(queue)] \in visited
    /\ ~Acyclic(basic_blocks)
    /\ \E b \in DOMAIN unwrap(preds_cache) : \E i, j \in DOMAIN unwrap(preds_cache)[b] :
          i # j /\ unwrap(preds_cache)[b][i] = unwrap(preds_cache)[b][j]

C17_Converse ==
    (/\ IsPredecessorOfReturned
     /\ Acyclic(basic_blocks)
     /\ ret.arg.self.block # ret.arg.other.block
     /\ ret.val.v = TRUE) =>
        Location_dominates(ret.arg.self, ret.arg.other, ComputeDominators(basic_blocks))

\* C18: Location::dominates returns self.statement_index <= other.statement_index
\* when the two locations are in the same block, whatever dominator table it
\* is given; when the blocks differ it returns what the table says of the two
\* blocks, whatever the indices, which for the Body's own table is whether
\* self's block is on every path from the entry to other's block.
C18_Dominates ==
    ret.op = "dominates" =>
        LET self == ret.arg.self
            other == ret.arg.other
        IN  /\ self.block = other.block =>
                  ret.val.v = (self.statement_index <= other.statement_index)
            /\ self.block # other.block =>
                  /\ ret.val.v = (self.block \in ret.arg.dominators[other.block + 1])
                  /\ ret.arg.dominators = ComputeDominators(basic_blocks) =>
                        ret.val.v = BlockDominates(basic_blocks, self.block, other.block)

C18_Witness ==
    /\ ret.op = "dominates"
    /\ ret.arg.self = ret.arg.other
    /\ ret.arg.dominators # ComputeDominators(basic_blocks)
    /\ ret.val.v = TRUE

\* =========================================================== ClearCrossCrate
\* ClearCrossCrate<T>: Clear, or Set(val).
ClearCrossCrate_Clear == <<"Clear">>
ClearCrossCrate_Set(val) == <<"Set", val>>

TAG_CLEAR_CROSS_CRATE_CLEAR == 0
TAG_CLEAR_CROSS_CRATE_SET == 1

\* The payloads and the plain byte fields are bytes 0..MaxByte: the two tags
\* and bytes that are no tag.
Bytes == 0..MaxByte

\* What a decode gives back: how it ended, the value, and the position after.
Decoded(tag, v, pos) == [tag |-> tag, v |-> v, position |-> pos]

\* u8::encode: one byte appended to the output.
u8_encode(buf, byte) == Append(buf, byte)

\* u8::decode: the byte at the position; reading past the end is fatal.
u8_decode(data, pos) ==
    IF pos < Len(data) THEN Decoded("Ok", data[pos + 1], pos + 1)
    ELSE Decoded("Panic", <<>>, pos)

\* T::encode and T::decode, for a payload type T that is one byte.
T_encode(buf, val) == u8_encode(buf, val)
\* A payload decode that leaves the decoder where it was.
T_decode_peek(data, pos) ==
    IF pos < Len(data) THEN Decoded("Ok", data[pos + 1], pos)
    ELSE Decoded("Panic", <<>>, pos)
T_decode(data, pos) == u8_decode(data, pos)

\* An encode that writes the tag of Set and leaves the payload out.
ClearCrossCrate_encode_tag_only(clear, value, buf) ==
    IF clear THEN buf
    ELSE IF value = ClearCrossCrate_Clear
         THEN u8_encode(buf, TAG_CLEAR_CROSS_CRATE_CLEAR)
         ELSE u8_encode(buf, TAG_CLEAR_CROSS_CRATE_SET)

\* <ClearCrossCrate<T> as Encodable<E>>::encode, E::CLEAR_CROSS_CRATE = clear
ClearCrossCrate_encode(clear, value, buf) ==
    IF clear THEN buf
    ELSE IF value = ClearCrossCrate_Clear
         THEN u8_encode(buf, TAG_CLEAR_CROSS_CRATE_CLEAR)
         ELSE T_encode(u8_encode(buf, TAG_CLEAR_CROSS_CRATE_SET), value[2])

\* The tagged decode that takes an unknown tag for Clear.
decode_tagged_lenient(data, pos) ==
    LET discr == u8_decode(data, pos) IN
    IF discr.tag = "Panic" THEN discr
    ELSE IF discr.v = TAG_CLEAR_CROSS_CRATE_SET
         THEN LET val == u8_decode(data, discr.position) IN
              IF val.tag = "Panic" THEN val
              ELSE Decoded("Ok", ClearCrossCrate_Set(val.v), val.position)
    ELSE Decoded("Ok", ClearCrossCrate_Clear, discr.position)

\* The part of decode after the test of D::CLEAR_CROSS_CRATE.
decode_tagged(data, pos) ==
    LET discr == u8_decode(data, pos) IN
    IF discr.tag = "Panic" THEN discr
    ELSE IF discr.v = TAG_CLEAR_CROSS_CRATE_CLEAR
         THEN Decoded("Ok", ClearCrossCrate_Clear, discr.position)
    ELSE IF discr.v = TAG_CLEAR_CROSS_CRATE_SET
         THEN LET val == T_decode(data, discr.position) IN
              IF val.tag = "Panic" THEN val
              ELSE Decoded("Ok", ClearCrossCrate_Set(val.v), val.position)
    ELSE Decoded("Panic", <<>>, discr.position)

\* A decode that reads the tag whatever D::CLEAR_CROSS_CRATE is.
ClearCrossCrate_decode_always_tagged(clear, data, pos) == decode_tagged(data, pos)

\* <ClearCrossCrate<T> as Decodable<D>>::decode, D::CLEAR_CROSS_CRATE = clear
ClearCrossCrate_decode(clear, data, pos) ==
    IF clear THEN Decoded("Ok", ClearCrossCrate_Clear, pos)
    ELSE decode_tagged(data, pos)

\* A field of the encoded structure: a ClearCrossCrate<T> or a plain byte.
Field(kind, val) == [kind |-> kind, val |-> val]

FieldValues ==
    {Field("ClearCrossCrate", ClearCrossCrate_Clear)}
    \cup {Field("ClearCrossCrate", ClearCrossCrate_Set(val)) : val \in Bytes}
    \cup {Field("u8", byte) : byte \in Bytes}

\* The next field is encoded.
Encode ==
    /\ encoded < Len(fields)
    /\ LET field == fields[encoded + 1] IN
       e' = IF field.kind = "ClearCrossCrate"
            THEN ClearCrossCrate_encode(E_CLEAR_CROSS_CRATE, field.val, e)
            ELSE u8_encode(e, field.val)
    /\ encoded' = encoded + 1
    /\ UNCHANGED <<E_CLEAR_CROSS_CRATE, D_CLEAR_CROSS_CRATE, fields, position, decoded,
                   expandVars, bodyVars, searchVars, laterVars>>

\* The next field is decoded from the finished output, as the type of the
\* field says; nothing is decoded after a fatal failure.
Decode ==
    /\ encoded = Len(fields)
    /\ Len(decoded) < Len(fields)
    /\ decoded # <<>> => decoded[Len(decoded)].tag = "Ok"
    /\ LET field == fields[Len(decoded) + 1]
           result == IF field.kind = "ClearCrossCrate"
                     THEN ClearCrossCrate_decode(D_CLEAR_CROSS_CRATE, e, position)
                     ELSE u8_decode(e, position)
       IN  /\ decoded' = Append(decoded, Outcome(result.tag, result.v))
           /\ position' = result.position
    /\ UNCHANGED <<E_CLEAR_CROSS_CRATE, D_CLEAR_CROSS_CRATE, fields, encoded, e,
                   expandVars, bodyVars, searchVars, laterVars>>

\* An encoder and a decoder of either kind, and up to MaxFields fields.
InitCodec ==
    /\ NoBody
    /\ debug_assertions = FALSE
    /\ statements = <<>>
    /\ f_plan = <<>>
    /\ splices = <<>>
    /\ extra_stmts = 0
    /\ idx = 0
    /\ gap = [start |-> 0, end |-> 0]
    /\ pc = "idle"
    /\ SearchIdle
    /\ LaterIdle
    /\ E_CLEAR_CROSS_CRATE \in BOOLEAN
    /\ D_CLEAR_CROSS_CRATE \in BOOLEAN
    /\ \E n \in 0..MaxFields : fields \in [1..n -> FieldValues]
    /\ encoded = 0
    /\ e = <<>>
    /\ position = 0
    /\ decoded = <<>>

NextCodec == Encode \/ Decode

SpecCodec == InitCodec /\ [][NextCodec]_vars

\* ----------------------------------------------------------- codec claims
\* C19: through a non-clearing channel (CLEAR_CROSS_CRATE false for the
\* encoder and for the decoder) every ClearCrossCrate value decodes to what
\* was encoded: Set(v) to Set(v), Clear to Clear.
C19_RoundTrip ==
    (~E_CLEAR_CROSS_CRATE /\ ~D_CLEAR_CROSS_CRATE) =>
        \A i \in 1..Len(decoded) :
            fields[i].kind = "ClearCrossCrate" =>
                /\ decoded[i].tag = "Ok"
                /\ decoded[i].v = fields[i].val

C19_Witness ==
    /\ ~E_CLEAR_CROSS_CRATE
    /\ ~D_CLEAR_CROSS_CRATE
    /\ Len(decoded) = MaxFields
    /\ fields[1] = Field("ClearCrossCrate", ClearCrossCrate_Set(TAG_CLEAR_CROSS_CRATE_CLEAR))
    /\ fields[MaxFields] = Field("ClearCrossCrate", ClearCrossCrate_Clear)
    /\ decoded[1].v = ClearCrossCrate_Set(TAG_CLEAR_CROSS_CRATE_CLEAR)
    /\ decoded[MaxFields].v = ClearCrossCrate_Clear

\* C20: through a clearing channel (CLEAR_CROSS_CRATE true on both sides)
\* encoding a ClearCrossCrate value, Set or Clear, writes no byte, and
\* decoding one reads no byte and yields Clear.
C20_ClearingChannel ==
    [][(E_CLEAR_CROSS_CRATE /\ D_CLEAR_CROSS_CRATE) =>
          /\ (encoded' = encoded + 1 /\ fields[encoded'].kind = "ClearCrossCrate") =>
                e' = e
          /\ (Len(decoded') = Len(decoded) + 1
              /\ fields[Len(decoded')].kind = "ClearCrossCrate") =>
                /\ position' = position
                /\ decoded'[Len(decoded')] = Outcome("Ok", ClearCrossCrate_Clear)]_vars

C20_Witness ==
    /\ E_CLEAR_CROSS_CRATE
    /\ D_CLEAR_CROSS_CRATE
    /\ Len(decoded) = MaxFields
    /\ fields[1] = Field("ClearCrossCrate", ClearCrossCrate_Set(MaxByte))
    /\ fields[MaxFields] = Field("u8", MaxByte)
    /\ decoded[1] = Outcome("Ok", ClearCrossCrate_Clear)
    /\ e = <<MaxByte>>
    /\ position = 1

\* The step encodes field number encoded', a ClearCrossCrate.
EncodesClearCrossCrate ==
    /\ encoded' = encoded + 1
    /\ fields[encoded'].kind = "ClearCrossCrate"

\* The step decodes field number Len(decoded'), a ClearCrossCrate.
DecodesClearCrossCrate ==
    /\ Len(decoded') = Len(decoded) + 1
    /\ fields[Len(decoded')].kind = "ClearCrossCrate"

\* C21: an encoder that does not clear writes Clear as the one byte 0 and
\* Set(v) as the byte 1 followed at once by the encoding of v; a decoder that
\* does not clear and finds a first byte other than 0 or 1 fails fatally and
\* yields no value.
C21_WireShape ==
    [][/\ (EncodesClearCrossCrate /\ ~E_CLEAR_CROSS_CRATE) =>
             e' = e \o (IF fields[encoded'].val[1] = "Clear" THEN <<0>>
                        ELSE <<1>> \o u8_encode(<<>>, fields[encoded'].val[2]))
       /\ (/\ DecodesClearCrossCrate
           /\ ~D_CLEAR_CROSS_CRATE
           /\ position < Len(e)
           /\ e[position + 1] \notin {0, 1}) =>
             decoded'[Len(decoded')] = Panic]_vars

C21_Witness ==
    /\ ~D_CLEAR_CROSS_CRATE
    /\ E_CLEAR_CROSS_CRATE
    /\ fields = <<Field("ClearCrossCrate", ClearCrossCrate_Clear), Field("u8", MaxByte)>>
    /\ e = <<MaxByte>>
    /\ decoded = <<Panic>>
    /\ position = 1

\* The number of bytes the encoding of a field takes on a channel.
EncodedLen(field, clear) ==
    IF field.kind = "u8" THEN 1
    ELSE IF clear THEN 0
    ELSE IF field.val[1] = "Clear" THEN 1 ELSE 2

RECURSIVE EncodedLenOfFirst(_, _)
EncodedLenOfFirst(k, clear) ==
    IF k = 0 THEN 0
    ELSE EncodedLenOfFirst(k - 1, clear) + EncodedLen(fields[k], clear)

\* C29: when ClearCrossCrate values and other fields are encoded and then
\* decoded with the same CLEAR_CROSS_CRATE on both sides, the decoder stands
\* after each field exactly where the encoder stood after it, every decode
\* succeeds, every other field comes back unchanged, and every
\* ClearCrossCrate comes back unchanged with the flag false and as Clear
\* with the flag true.
C29_StreamFraming ==
    (E_CLEAR_CROSS_CRATE = D_CLEAR_CROSS_CRATE) =>
        /\ Len(e) = EncodedLenOfFirst(encoded, E_CLEAR_CROSS_CRATE)
        /\ position = EncodedLenOfFirst(Len(decoded), E_CLEAR_CROSS_CRATE)
        /\ \A i \in 1..Len(decoded) :
              /\ decoded[i].tag = "Ok"
              /\ decoded[i].v = IF fields[i].kind = "ClearCrossCrate" /\ D_CLEAR_CROSS_CRATE
                                THEN ClearCrossCrate_Clear
                                ELSE fields[i].val

C29_Witness ==
    /\ ~E_CLEAR_CROSS_CRATE
    /\ ~D_CLEAR_CROSS_CRATE
    /\ Len(decoded) = MaxFields
    /\ fields[1] = Field("ClearCrossCrate", ClearCrossCrate_Set(MaxByte))
    /\ fields[MaxFields] = Field("u8", TAG_CLEAR_CROSS_CRATE_CLEAR)
    /\ decoded[MaxFields] = Outcome("Ok", TAG_CLEAR_CROSS_CRATE_CLEAR)
    /\ position = Len(e)

\* ========================================================= post_mono_checks
\* How normalize_const and eval may end for a constant: Ok, or an
\* ErrorHandled.
ConstOutcomes == {"Ok", "Reported", "TooGeneric"}

\* The required constant number k of a body: Constant { span, literal }.
Constant(k) == [span |-> k, literal |-> k]

\* One use of the normalizer or of eval on required constant number i.
ConstCall(step, i) == [step |-> step, i |-> i]

\* post_mono_checks that goes on when an evaluation fails.
RECURSIVE post_mono_checks_swallow_eval(_, _, _, _, _)
post_mono_checks_swallow_eval(consts, normalize_const, eval, i, calls) ==
    IF i > Len(consts) THEN Outcome("Ok", calls)
    ELSE IF normalize_const[i] # "Ok"
         THEN Outcome(normalize_const[i], Append(calls, ConstCall("normalize_const", i)))
         ELSE post_mono_checks_swallow_eval(consts, normalize_const, eval, i + 1,
                  calls \o <<ConstCall("normalize_const", i), ConstCall("eval", i)>>)

\* Body::post_mono_checks from required constant number i on: the result
\* (Ok or the ErrorHandled) with the calls made on the way.
RECURSIVE post_mono_checks(_, _, _, _, _)
post_mono_checks(consts, normalize_const, eval, i, calls) ==
    IF i > Len(consts) THEN Outcome("Ok", calls)
    ELSE IF normalize_const[i] # "Ok"
         THEN Outcome(normalize_const[i], Append(calls, ConstCall("normalize_const", i)))
    ELSE IF eval[i] # "Ok"
         THEN Outcome(eval[i], calls \o <<ConstCall("normalize_const", i),
                                          ConstCall("eval", i)>>)
    ELSE post_mono_checks(consts, normalize_const, eval, i + 1,
             calls \o <<ConstCall("normalize_const", i), ConstCall("eval", i)>>)

\* A call of body.post_mono_checks(tcx, param_env, normalize_const), for any
\* way the normalizer and the evaluation treat each required constant.
PostMonoChecks ==
    /\ origin = "new"
    /\ \E normalize_const \in [1..Len(required_consts) -> ConstOutcomes],
          eval \in [1..Len(required_consts) -> ConstOutcomes] :
          ret' = Call("post_mono_checks",
                      [normalize_const |-> normalize_const, eval |-> eval],
                      post_mono_checks(required_consts, normalize_const, eval, 1, <<>>))
    /\ UNCHANGED <<origin, graphVars, phase, pass_count, source_scopes, local_decls,
                   arg_count, injection_phase, required_consts, debug_assertions,
                   expandVars, extraVars>>

\* A Body from Body::new whose required_consts a pass has since filled in
\* with up to MaxConsts constants.
InitMono ==
    /\ origin = "new"
    /\ basic_blocks = NewBody(GraphInput).graph.basic_blocks
    /\ preds_cache = None
    /\ doms_cache = None
    /\ borrow = NoBorrow
    /\ phase = MirPhase_Built
    /\ pass_count = 0
    /\ source_scopes = <<None>>
    /\ local_decls = <<LocalDecl_new>>
    /\ arg_count = 0
    /\ injection_phase = None
    /\ \E n \in 0..MaxConsts : required_consts = [k \in 1..n |-> Constant(k)]
    /\ debug_assertions \in BOOLEAN
    /\ ret = Call("Body::new", GraphInput, Outcome("Ok", <<>>))
    /\ statements = <<>>
    /\ f_plan = <<>>
    /\ splices = <<>>
    /\ extra_stmts = 0
    /\ idx = 0
    /\ gap = [start |-> 0, end |-> 0]
    /\ pc = "idle"
    /\ SearchIdle
    /\ CodecIdle
    /\ LaterIdle

NextMono == PostMonoChecks

SpecMono == InitMono /\ [][NextMono]_vars

\* Required constant number i fails, in the normalizer or in the evaluation.
ConstFails(normalize_const, eval, i) ==
    normalize_const[i] # "Ok" \/ eval[i] # "Ok"

\* The calls made when the first failing constant is number first (one past
\* the last when none fails).
CallsUpTo(normalize_const, first, n) ==
    {ConstCall("normalize_const", i) : i \in {j \in 1..n : j <= first}}
    \cup {ConstCall("eval", i) :
              i \in {j \in 1..n : j < first \/ (j = first /\ normalize_const[j] = "Ok")}}

\* C22: post_mono_checks takes the required constants in list order and
\* returns Ok exactly when the normalizer and then the evaluation succeed for
\* every one of them (an empty list gives Ok); otherwise it returns the
\* failure of the first constant that fails at either step, as it is, and
\* neither normalizes nor evaluates any later constant; the Body is the same
\* afterwards.
C22_PostMonoChecks ==
    /\ [](ret.op = "post_mono_checks" =>
            LET normalize_const == ret.arg.normalize_const
                eval == ret.arg.eval
                n == Len(required_consts)
                failing == {i \in 1..n : ConstFails(normalize_const, eval, i)}
                first == IF failing = {} THEN n + 1
                         ELSE CHOOSE i \in failing : \A j \in failing : i <= j
                calls == ret.val.v
            IN  /\ (ret.val.tag = "Ok") = (failing = {})
                /\ failing # {} =>
                      ret.val.tag = IF normalize_const[first] # "Ok"
                                    THEN normalize_const[first] ELSE eval[first]
                /\ {calls[j] : j \in DOMAIN calls} = CallsUpTo(normalize_const, first, n)
                /\ Len(calls) = Cardinality(CallsUpTo(normalize_const, first, n))
                /\ \A j, k \in DOMAIN calls :
                      j < k => \/ calls[j].i < calls[k].i
                               \/ /\ calls[j].i = calls[k].i
                                  /\ calls[j].step = "normalize_const"
                                  /\ calls[k].step = "eval")
    /\ [][ret'.op = "post_mono_checks" =>
             UNCHANGED <<origin, graphVars, phase, pass_count, source_scopes,
                         local_decls, arg_count, injection_phase, required_consts>>]_vars

C22_Witness ==
    /\ ret.op = "post_mono_checks"
    /\ Len(required_consts) = MaxConsts
    /\ ret.arg.normalize_const[1] = "Ok"
    /\ ret.arg.eval[1] = "TooGeneric"
    /\ ret.arg.normalize_const[MaxConsts] = "Reported"
    /\ ret.val.tag = "TooGeneric"
    /\ Len(ret.val.v) = 2

\* ================================================================ PASS_NAMES
Threads == 1..MaxThreads

\* The pass names asked for: type names, with upper-case letters.
PassTypeNames == {<<"D", "c", "e">>, <<"G", "V", "N">>}

\* The flat_map of to_profiler_name: an upper-case letter becomes `_` and the
\* letter in lower case, `-` becomes `_`, anything else stays.
RECURSIVE snake_case(_)
snake_case(type_name) ==
    IF type_name = <<>> THEN <<>>
    ELSE LET c == Head(type_name) IN
         (IF c \in DOMAIN AsciiUpperToLower THEN <<"_", AsciiUpperToLower[c]>>
          ELSE IF c = "-" THEN <<"_">>
          ELSE <<c>>) \o snake_case(Tail(type_name))

\* format!("mir_pass{}", snake_case)
profiler_string(type_name) ==
    <<"m", "i", "r", "_", "p", "a", "s", "s">> \o snake_case(type_name)

\* A lookup that finds every entry vacant.
entry_always_vacant(names, type_name) == None

\* names.borrow_mut().entry(type_name): Some(value) if occupied, None if vacant.
entry(names, type_name) == names[type_name]

\* A thread that is in no call, with the argument and result of its last call.
ProfilerIdle(type_name, result) ==
    [pc |-> "idle", type_name |-> type_name, result |-> result]

\* A thread calls pass.profiler_name(): to_profiler_name(self.name()) looks
\* the name up in the thread's own PASS_NAMES and returns an occupied entry.
ProfilerName ==
    /\ \E t \in Threads, type_name \in PassTypeNames :
          /\ profiler_call[t].pc = "idle"
          /\ LET found == entry(PASS_NAMES[t], type_name) IN
             profiler_call' =
                 [profiler_call EXCEPT ![t] =
                     IF is_some(found) THEN ProfilerIdle(type_name, found)
                     ELSE [pc |-> "vacant", type_name |-> type_name, result |-> None]]
    /\ UNCHANGED <<PASS_NAMES, leaked, expandVars, bodyVars, searchVars, codecVars,
                   panicVars, idVars>>

\* The Vacant arm: the snake-case string is built and leaked, the reference
\* to it is inserted in the thread's map and returned.
InsertVacant ==
    /\ \E t \in Threads :
          /\ profiler_call[t].pc = "vacant"
          /\ leaked' = Append(leaked, profiler_string(profiler_call[t].type_name))
          /\ PASS_NAMES' = [PASS_NAMES EXCEPT ![t][profiler_call[t].type_name] =
                                                  Some(Len(leaked'))]
          /\ profiler_call' = [profiler_call EXCEPT ![t] =
                                  ProfilerIdle(profiler_call[t].type_name, Some(Len(leaked')))]
    /\ UNCHANGED <<expandVars, bodyVars, searchVars, codecVars, panicVars, idVars>>

\* Every thread starts with an empty map of its own.
InitPass ==
    /\ NoBody
    /\ debug_assertions = FALSE
    /\ statements = <<>>
    /\ f_plan = <<>>
    /\ splices = <<>>
    /\ extra_stmts = 0
    /\ idx = 0
    /\ gap = [start |-> 0, end |-> 0]
    /\ pc = "idle"
    /\ SearchIdle
    /\ CodecIdle
    /\ PanicIdle
    /\ IdIdle
    /\ PASS_NAMES = [t \in Threads |-> [type_name \in PassTypeNames |-> None]]
    /\ profiler_call = [t \in Threads |-> ProfilerIdle(<<>>, None)]
    /\ leaked = <<>>

NextPass == ProfilerName \/ InsertVacant

SpecPass == InitPass /\ [][NextPass]_vars

\* The (thread, name) pairs that have an entry.
CachedPairs ==
    {tn \in Threads \X PassTypeNames : is_some(PASS_NAMES[tn[1]][tn[2]])}

NoGrowthPlan == \A j \in DOMAIN f_plan : ~f_plan[j].some \/ f_plan[j].len <= 1

\* The entry for statement j once f has seen it: the statement as f left it,
\* a Nop with its source info, or the single replacement.
EntryFor(j) ==
    LET c == f_plan[j] IN
    IF ~c.some THEN (IF c.mutates THEN EditedStmt(j) ELSE OrigStmt(j))
    ELSE IF c.len = 0 THEN Stmt("Nop", j, 0)
    ELSE Stmt("Assign", j, 1)

\* C24: if f yields None, zero or exactly one replacement for every statement,
\* the number of statements never changes and every original position j
\* holds the entry for statement j: the original before f has seen it, and
\* afterwards the statement as f left it, a Nop, or the single replacement.
C24_IndexStability ==
    NoGrowthPlan =>
        /\ Len(statements) = Len(f_plan)
        /\ \A j \in 1..Len(f_plan) :
              statements[j] = IF j <= idx THEN EntryFor(j) ELSE OrigStmt(j)

C24_Witness ==
    /\ pc = "done"
    /\ NoGrowthPlan
    /\ Len(f_plan) = MaxStmts
    /\ f_plan[1] = [some |-> FALSE, len |-> 0, mutates |-> TRUE]
    /\ f_plan[2] = [some |-> TRUE, len |-> 0, mutates |-> FALSE]
    /\ f_plan[3] = [some |-> TRUE, len |-> 1, mutates |-> FALSE]
    /\ statements = <<EditedStmt(1), Stmt("Nop", 2, 0), Stmt("Assign", 3, 1)>>

is_user_variable(decl) ==
    IF decl.local_info = "Clear" THEN Panic
    ELSE Outcome("Ok", decl.local_info = "User")

\* filter_map over the range index..end of closure results, collected until
\* the range is exhausted or a closure call panics.
RECURSIVE filter_map(_, _, _, _)
filter_map(results, index, end, yielded) ==
    IF index >= end THEN Outcome("Ok", yielded)
    ELSE IF results[index].tag = "Panic" THEN Outcome("Panic", yielded)
    ELSE filter_map(results, index + 1, end,
                    IF results[index].v THEN Append(yielded, index) ELSE yielded)

\* Body::mut_vars_iter
mut_vars_iter(decls, argc) ==
    filter_map([index \in (argc + 1)..(Len(decls) - 1) |->
                   LET decl == decls[index + 1]
                       user == is_user_variable(decl)
                   IN  IF user.tag = "Panic" THEN Panic
                       ELSE Outcome("Ok", user.v /\ decl.mutability = "Mut")],
               argc + 1, Len(decls), <<>>)

\* Mutant of mut_vars_and_args_iter: only the arguments are looked at.
mut_vars_and_args_iter_args_only(decls, argc) ==
    filter_map([index \in 1..(Len(decls) - 1) |->
                   Outcome("Ok", index < argc + 1 /\ decls[index + 1].mutability = "Mut")],
               1, Len(decls), <<>>)

\* Body::mut_vars_and_args_iter
mut_vars_and_args_iter(decls, argc) ==
    filter_map([index \in 1..(Len(decls) - 1) |->
                   LET decl == decls[index + 1]
                       user == is_user_variable(decl)
                   IN  IF user.tag = "Panic" THEN Panic
                       ELSE Outcome("Ok", (user.v \/ index < argc + 1)
                                              /\ decl.mutability = "Mut")],
               1, Len(decls), <<>>)

\* Body::args_iter: (1..arg_count + 1).map(Local::new)
args_iter(argc) == [k \in 1..argc |-> k]

\* Body::vars_and_temps_iter: (arg_count + 1..local_decls.len()).map(Local::new)
vars_and_temps_iter(decls, argc) == [k \in 1..(Len(decls) - argc - 1) |-> argc + k]

\* A caller collects one of the four iterators.
CollectLocals ==
    /\ origin = "new"
    /\ \E it \in {"args_iter", "vars_and_temps_iter", "mut_vars_iter",
                  "mut_vars_and_args_iter"} :
          ret' = Call(it, <<>>,
                      CASE it = "args_iter" -> Outcome("Ok", args_iter(arg_count))
                        [] it = "vars_and_temps_iter" ->
                              Outcome("Ok", vars_and_temps_iter(local_decls, arg_count))
                        [] it = "mut_vars_iter" -> mut_vars_iter(local_decls, arg_count)
                        [] OTHER -> mut_vars_and_args_iter(local_decls, arg_count))
    /\ UNCHANGED <<origin, graphVars, phase, pass_count, source_scopes, local_decls,
                   arg_count, injection_phase, required_consts, debug_assertions,
                   expandVars, extraVars>>

\* The declarations a local table may hold: mutable or not, with the info
\* Boring or User, or with the info cleared (ClearCrossCrate::Clear).
LocalDecls ==
    {[mutability |-> mu, local_info |-> li] :
        mu \in {"Mut", "Not"}, li \in {"Boring", "User", "Clear"}}

\* The Body that Body::new returns for any table of up to MaxLocals locals
\* and any arg_count its assertion lets through.
InitLocals ==
    /\ origin = "new"
    /\ basic_blocks = NewBody(GraphInput).graph.basic_blocks
    /\ preds_cache = None
    /\ doms_cache = None
    /\ borrow = NoBorrow
    /\ phase = MirPhase_Built
    /\ pass_count = 0
    /\ source_scopes = <<None>>
    /\ \E n \in 1..MaxLocals :
          /\ local_decls \in [1..n -> LocalDecls]
          /\ arg_count \in 0..MaxLocals
          /\ NewAssertion(n, arg_count)
    /\ injection_phase = None
    /\ required_consts = <<>>
    /\ debug_assertions \in BOOLEAN
    /\ ret = Call("Body::new",
                  [GraphInput EXCEPT !.local_decls = local_decls, !.arg_count = arg_count],
                  Outcome("Ok", <<>>))
    /\ statements = <<>>
    /\ f_plan = <<>>
    /\ splices = <<>>
    /\ extra_stmts = 0
    /\ idx = 0
    /\ gap = [start |-> 0, end |-> 0]
    /\ pc = "idle"
    /\ SearchIdle
    /\ CodecIdle
    /\ LaterIdle

NextLocals == CollectLocals \/ LocalKind

SpecLocals == InitLocals /\ [][NextLocals]_vars

\* ------------------------------------------------------------------- C28
Range(s) == {s[k] : k \in DOMAIN s}

\* The locals of the Body whose local_kind is the given one.
LocalsOfKind(kind) ==
    {local \in 0..(Len(local_decls) - 1) :
        local_kind(local_decls, arg_count, debug_assertions, local).tag = kind}

\* {Local 0}, args_iter() and vars_and_temps_iter() split the locals, and
\* the two iterators yield the Arg and the Temp locals in increasing order.
LocalsPartition ==
    LET args == args_iter(arg_count)
        temps == vars_and_temps_iter(local_decls, arg_count)
    IN  /\ Range(args) \cap Range(temps) = {}
        /\ 0 \notin Range(args) \cup Range(temps)
        /\ {0} \cup Range(args) \cup Range(temps) = 0..(Len(local_decls) - 1)
        /\ \A s \in {args, temps} : \A j, k \in DOMAIN s : j < k => s[j] < s[k]
        /\ Range(args) = LocalsOfKind("Arg")
        /\ Len(args) = arg_count
        /\ Range(temps) = LocalsOfKind("Temp")

usize_BITS == MaxPanics + 1

\* usize::MAX at that width.
usize_MAX == 2^usize_BITS - 1

\* Wrapping usize arithmetic.
wrapping_add(a, b) == (a + b) % (usize_MAX + 1)

wrapping_sub(a, b) == (a + (usize_MAX + 1) - b) % (usize_MAX + 1)

\* pub const ALWAYS_ABORT_FLAG: usize = 1 << (usize::BITS - 1)
ALWAYS_ABORT_FLAG == 2^(usize_BITS - 1)

\* global_count & ALWAYS_ABORT_FLAG != 0
always_abort(global_count) == global_count >= ALWAYS_ABORT_FLAG

\* global_count & !ALWAYS_ABORT_FLAG
count_of(global_count) == global_count % ALWAYS_ABORT_FLAG

\* LOCAL_PANIC_COUNT: Cell<(usize, bool)>
Local(count, in_panic_hook) == [count |-> count, in_panic_hook |-> in_panic_hook]

\* Mutant of increase_local: the in-hook flag is not looked at.
increase_local_ignore_hook(local, run_panic_hook) ==
    [result |-> "None", local |-> Local(wrapping_add(local.count, 1), run_panic_hook)]

\* The LOCAL_PANIC_COUNT.with closure of increase: what it returns and what
\* it leaves in the cell.
increase_local(local, run_panic_hook) ==
    IF local.in_panic_hook
    THEN [result |-> "PanicInHook", local |-> local]
    ELSE [result |-> "None", local |-> Local(wrapping_add(local.count, 1), run_panic_hook)]

\* The process has been aborted by the thread: increase returned
\* Some(must_abort) to rust_panic_with_hook, or its panic cannot unwind.
Aborted(why) == Some(why)

\* The panics in flight of the thread, innermost last: each is in its hook
\* ("hook") or unwinding towards a catch_unwind ("unwind").
Top(frames) == IF frames = <<>> THEN "none" ELSE frames[Len(frames)]

Pop(frames) == SubSeq(frames, 1, Len(frames) - 1)

\* rust_panic_with_hook (run_panic_hook) or rust_panic_without_hook starts:
\* the fetch_add of increase and its test of the flag. With the flag set
\* increase returns AlwaysAbort; rust_panic_with_hook then aborts, while
\* rust_panic_without_hook drops the result and starts unwinding.
BeginPanic ==
    /\ aborted = None
    /\ count_of(GLOBAL_PANIC_COUNT) < MaxPanics
    /\ \E run_panic_hook \in BOOLEAN :
          LET global_count == GLOBAL_PANIC_COUNT IN
          /\ panic_thread.pc = "run" \/ (panic_thread.pc = "overflow" /\ run_panic_hook)
          /\ GLOBAL_PANIC_COUNT' = wrapping_add(GLOBAL_PANIC_COUNT, 1)
          /\ IF always_abort(global_count)
             THEN /\ panic_thread' =
                        [panic_thread EXCEPT !.pc = "run",
                                             !.is_zero = None,
                                             !.frames = IF run_panic_hook THEN @
                                                        ELSE Append(@, "unwind")]
                  /\ aborted' = IF run_panic_hook THEN Aborted("AlwaysAbort") ELSE None
             ELSE /\ panic_thread' =
                        [panic_thread EXCEPT !.pc = "increase_local",
                                             !.run_panic_hook = run_panic_hook]
                  /\ UNCHANGED aborted
    /\ UNCHANGED <<LOCAL_PANIC_COUNT, other_threads, expandVars, bodyVars, searchVars,
                   codecVars, passVars, idVars>>

\* The rest of increase, on the thread's own cell. After None the hook runs
\* (rust_panic_with_hook) or unwinding starts (rust_panic_without_hook);
\* after PanicInHook rust_panic_with_hook aborts and rust_panic_without_hook,
\* which drops the result, starts unwinding.
IncreaseLocal ==
    /\ aborted = None
    /\ panic_thread.pc = "increase_local"
    /\ LET inc == increase_local(LOCAL_PANIC_COUNT, panic_thread.run_panic_hook)
           with_hook == panic_thread.run_panic_hook
       IN  /\ LOCAL_PANIC_COUNT' = inc.local
           /\ panic_thread' =
                 [panic_thread EXCEPT
                     !.pc = "run",
                     !.run_panic_hook = FALSE,
                     !.is_zero = None,
                     !.hooked = @ \/ (inc.result = "None" /\ with_hook),
                     !.frames = IF ~with_hook THEN Append(@, "unwind")
                                ELSE IF inc.result = "None" THEN Append(@, "hook")
                                ELSE @]
           /\ aborted' = IF with_hook /\ inc.result # "None" THEN Aborted(inc.result)
                         ELSE None
    /\ UNCHANGED <<GLOBAL_PANIC_COUNT, other_threads, expandVars, bodyVars, searchVars,
                   codecVars, passVars, idVars>>

\* The hook has returned: finished_panic_hook, then the abort of a panic that
\* cannot unwind, or rust_panic.
FinishedPanicHook ==
    /\ aborted = None
    /\ panic_thread.pc = "run"
    /\ Top(panic_thread.frames) = "hook"
    /\ \E can_unwind \in BOOLEAN :
          /\ LOCAL_PANIC_COUNT' = Local(LOCAL_PANIC_COUNT.count, FALSE)
          /\ panic_thread' =
                [panic_thread EXCEPT
                    !.is_zero = None,
                    !.hooked = FALSE,
                    !.frames = IF can_unwind THEN Append(Pop(@), "unwind") ELSE @]
          /\ aborted' = IF can_unwind THEN None ELSE Aborted("cannot unwind")
    /\ UNCHANGED <<GLOBAL_PANIC_COUNT, other_threads, expandVars, bodyVars, searchVars,
                   codecVars, passVars, idVars>>

\* A catch_unwind catches the innermost unwinding panic (try::cleanup): the
\* fetch_sub of decrease. A panic that was raised inside a hook is caught
\* inside the hook or, having left it, outside.
Catch ==
    /\ aborted = None
    /\ panic_thread.pc = "run"
    /\ Top(panic_thread.frames) = "unwind"
    /\ \E leaves_hook \in BOOLEAN :
          /\ leaves_hook => Top(Pop(panic_thread.frames)) = "hook"
          /\ panic_thread' =
                [panic_thread EXCEPT
                    !.pc = "decrease_local",
                    !.is_zero = None,
                    !.frames = IF leaves_hook THEN Pop(Pop(@)) ELSE Pop(@)]
    /\ GLOBAL_PANIC_COUNT' = wrapping_sub(GLOBAL_PANIC_COUNT, 1)
    /\ UNCHANGED <<LOCAL_PANIC_COUNT, aborted, other_threads, expandVars, bodyVars,
                   searchVars, codecVars, passVars, idVars>>

\* The rest of decrease, on the thread's own cell: count - 1 wraps, or panics
\* in a build with overflow checks.
DecreaseLocal ==
    /\ aborted = None
    /\ panic_thread.pc = "decrease_local"
    /\ IF LOCAL_PANIC_COUNT.count = 0 /\ debug_assertions
       THEN /\ UNCHANGED LOCAL_PANIC_COUNT
            /\ panic_thread' = [panic_thread EXCEPT !.pc = "overflow"]
       ELSE /\ LOCAL_PANIC_COUNT' = Local(wrapping_sub(LOCAL_PANIC_COUNT.count, 1), FALSE)
            /\ panic_thread' = [panic_thread EXCEPT !.pc = "run", !.hooked = FALSE]
    /\ UNCHANGED <<GLOBAL_PANIC_COUNT, aborted, other_threads, expandVars, bodyVars,
                   searchVars, codecVars, passVars, idVars>>

\* set_always_abort, in any thread: fetch_or(ALWAYS_ABORT_FLAG)
SetAlwaysAbort ==
    /\ aborted = None
    /\ GLOBAL_PANIC_COUNT' = IF always_abort(GLOBAL_PANIC_COUNT) THEN GLOBAL_PANIC_COUNT
                             ELSE GLOBAL_PANIC_COUNT + ALWAYS_ABORT_FLAG
    /\ UNCHANGED <<LOCAL_PANIC_COUNT, panic_thread, aborted, other_threads, expandVars,
                   bodyVars, searchVars, codecVars, passVars, idVars>>

\* Another thread starts a panic: the fetch_add of its increase.
OtherIncrease ==
    /\ aborted = None
    /\ count_of(GLOBAL_PANIC_COUNT) < MaxPanics
    /\ GLOBAL_PANIC_COUNT' = wrapping_add(GLOBAL_PANIC_COUNT, 1)
    /\ other_threads' = other_threads + 1
    /\ UNCHANGED <<LOCAL_PANIC_COUNT, panic_thread, aborted, expandVars, bodyVars,
                   searchVars, codecVars, passVars, idVars>>

\* Another thread catches one of its panics: the fetch_sub of its decrease.
OtherDecrease ==
    /\ aborted = None
    /\ other_threads > 0
    /\ GLOBAL_PANIC_COUNT' = wrapping_sub(GLOBAL_PANIC_COUNT, 1)
    /\ other_threads' = other_threads - 1
    /\ UNCHANGED <<LOCAL_PANIC_COUNT, panic_thread, aborted, expandVars, bodyVars,
                   searchVars, codecVars, passVars, idVars>>

\* count_is_zero: the load, and the fast path if the count part is zero.
CountIsZero ==
    /\ aborted = None
    /\ panic_thread.pc = "run"
    /\ panic_thread' =
          IF count_of(GLOBAL_PANIC_COUNT) = 0
          THEN [panic_thread EXCEPT !.is_zero = Some(TRUE)]
          ELSE [panic_thread EXCEPT !.pc = "is_zero_slow_path", !.is_zero = None]
    /\ UNCHANGED <<GLOBAL_PANIC_COUNT, LOCAL_PANIC_COUNT, aborted, other_threads,
                   expandVars, bodyVars, searchVars, codecVars, passVars, idVars>>

\* is_zero_slow_path
IsZeroSlowPath ==
    /\ aborted = None
    /\ panic_thread.pc = "is_zero_slow_path"
    /\ panic_thread' = [panic_thread EXCEPT !.pc = "run",
                                            !.is_zero = Some(LOCAL_PANIC_COUNT.count = 0)]
    /\ UNCHANGED <<GLOBAL_PANIC_COUNT, LOCAL_PANIC_COUNT, aborted, other_threads,
                   expandVars, bodyVars, searchVars, codecVars, passVars, idVars>>

\* A process none of whose threads has panicked, built with overflow checks
\* (debug_assertions) or without.
InitPanic ==
    /\ NoBody
    /\ debug_assertions \in BOOLEAN
    /\ statements = <<>>
    /\ f_plan = <<>>
    /\ splices = <<>>
    /\ extra_stmts = 0
    /\ idx = 0
    /\ gap = [start |-> 0, end |-> 0]
    /\ pc = "idle"
    /\ SearchIdle
    /\ CodecIdle
    /\ PassIdle
    /\ IdIdle
    /\ GLOBAL_PANIC_COUNT = 0
    /\ LOCAL_PANIC_COUNT = Local(0, FALSE)
    /\ panic_thread = [pc |-> "run", frames |-> <<>>, run_panic_hook |-> FALSE,
                       hooked |-> FALSE, is_zero |-> None]
    /\ other_threads = 0
    /\ aborted = None

NextPanic ==
    \/ BeginPanic
    \/ IncreaseLocal
    \/ FinishedPanicHook
    \/ Catch
    \/ DecreaseLocal
    \/ SetAlwaysAbort
    \/ OtherIncrease
    \/ OtherDecrease
    \/ CountIsZero
    \/ IsZeroSlowPath

SpecPanic == InitPanic /\ [][NextPanic]_vars

\* ------------------------------------------------------------------- C26
\* C26: whenever a thread is not in the middle of increase or decrease, if
\* the global count with the ALWAYS_ABORT flag masked off is zero, that
\* thread's local count is zero; so count_is_zero() returns true exactly when
\* the calling thread's local count is zero, by the fast or the slow path.
C26_GlobalZeroImpliesLocalZero ==
    panic_thread.pc \notin {"increase_local", "decrease_local"} =>
        /\ count_of(GLOBAL_PANIC_COUNT) = 0 => LOCAL_PANIC_COUNT.count = 0
        /\ is_some(panic_thread.is_zero) =>
              unwrap(panic_thread.is_zero) = (LOCAL_PANIC_COUNT.count = 0)

\* ------------------------------------------------------------------- C27
\* The step in which the increase(true) of rust_panic_with_hook returns.
HookedIncreaseReturns ==
    \/ /\ panic_thread.pc = "increase_local"
       /\ panic_thread.run_panic_hook
       /\ panic_thread'.pc # "increase_local"
    \/ /\ aborted = None
       /\ aborted' = Aborted("AlwaysAbort")

\* The local count, the in-hook flag and the panics in flight stay as they
\* are: nothing is counted and no hook is invoked.
NothingCounted ==
    /\ LOCAL_PANIC_COUNT' = LOCAL_PANIC_COUNT
    /\ panic_thread'.frames = panic_thread.frames

\* The panic is counted and its hook is invoked.
CountedNormally ==
    /\ aborted' = None
    /\ LOCAL_PANIC_COUNT' = Local(wrapping_add(LOCAL_PANIC_COUNT.count, 1), TRUE)
    /\ panic_thread'.frames = Append(panic_thread.frames, "hook")

\* C27 as stated: a hooked panic started after the thread's previous
\* increase(true) returned None and before finished_panic_hook or decrease
\* ran on it gets PanicInHook from increase, leaves the local count and the
\* in-hook flag as they are, invokes no hook and aborts the process; once
\* finished_panic_hook has run, a further hooked panic is counted normally.
C27_AsStated ==
    [][HookedIncreaseReturns =>
          IF panic_thread.hooked
          THEN aborted' = Aborted("PanicInHook") /\ NothingCounted
          ELSE Top(panic_thread.frames) = "unwind" => CountedNormally]_vars

\* C27: a hooked panic started after the thread's previous increase(true)
\* returned None and before finished_panic_hook or decrease ran on it aborts
\* the process with the local count, the in-hook flag and the hooks invoked
\* as they were; increase returns PanicInHook, or AlwaysAbort if
\* set_always_abort had run before its fetch_add. Once finished_panic_hook
\* (or decrease) has run, a further hooked panic is counted normally, the
\* count wrapping at usize::MAX, unless set_always_abort had run before its
\* fetch_add, in which case increase returns AlwaysAbort and the process
\* aborts with nothing counted.
C27_PanicInHook ==
    [][HookedIncreaseReturns =>
          /\ aborted' = Aborted("AlwaysAbort") =>
                always_abort(GLOBAL_PANIC_COUNT') /\ NothingCounted
          /\ aborted' # Aborted("AlwaysAbort") =>
                IF panic_thread.hooked
                THEN aborted' = Aborted("PanicInHook") /\ NothingCounted
                ELSE CountedNormally]_vars

\* The process aborted on a panic raised inside the hook of the first one.
C27_Witness ==
    /\ aborted = Aborted("PanicInHook")
    /\ panic_thread.hooked
    /\ panic_thread.frames = <<"hook">>
    /\ LOCAL_PANIC_COUNT = Local(1, TRUE)
    /\ count_of(GLOBAL_PANIC_COUNT) = LOCAL_PANIC_COUNT.count + 1

\* ================================================================== IdMap
\* An id is written as its text up to its numeric suffixes, followed by the
\* suffixes: "help" is <<"help">> and "help-1" is <<"help", 1>>, whether it
\* was typed by a caller or formatted by derive.
\* init_id_map: the ids the page templates use, each with the count 1.
DEFAULT_ID_MAP ==
    [id \in {<<"help">>, <<"settings">>, <<"not-displayed">>, <<"alternative-display">>,
             <<"search">>, <<"crate-search">>, <<"crate-search-div">>,
             <<"themeStyle">>, <<"settings-menu">>, <<"help-button">>,
             <<"main-content">>, <<"toggle-all-docs">>, <<"all-types">>,
             <<"default-settings">>, <<"sidebar-vars">>, <<"copy-path">>, <<"TOC">>,
             <<"fields">>, <<"variants">>, <<"implementors-list">>,
             <<"synthetic-implementors-list">>, <<"foreign-impls">>,
             <<"implementations">>, <<"trait-implementations">>,
             <<"synthetic-implementations">>, <<"blanket-implementations">>,
             <<"required-associated-types">>, <<"provided-associated-types">>,
             <<"provided-associated-consts">>, <<"required-associated-consts">>,
             <<"required-methods">>, <<"provided-methods">>, <<"implementors">>,
             <<"synthetic-implementors">>, <<"implementations-list">>,
             <<"trait-implementations-list">>, <<"synthetic-implementations-list">>,
             <<"blanket-implementations-list">>, <<"deref-methods">>, <<"layout">>,
             <<"aliased-type">>} |-> 1]

\* format!("{}-{}", candidate, a)
format_id(candidate, a) == Append(candidate, a)

\* FxHashMap::insert(key, value)
insert(table, key, value) ==
    [k \in DOMAIN table \cup {key} |-> IF k = key THEN value ELSE table[k]]

\* IdMap::derive: the id returned and the map afterwards.
derive(table, candidate) ==
    LET found == candidate \in DOMAIN table
        id == IF found THEN format_id(candidate, table[candidate]) ELSE candidate
        counted == IF found THEN [table EXCEPT ![candidate] = @ + 1] ELSE table
    IN  [id |-> id, map |-> insert(counted, id, 1)]

\* The candidates callers pass: a heading, the same text with numeric
\* suffixes, a default id, and a default id with a numeric suffix.
Candidates ==
    {<<"examples">>, <<"examples", 1>>, <<"examples", 1, 1>>, <<"help">>, <<"help", 1>>}

\* A call of derive on the IdMap.
Derive ==
    /\ Len(derived) < MaxDerives
    /\ \E candidate \in Candidates :
          LET d == derive(map, candidate) IN
          /\ map' = d.map
          /\ derived' = Append(derived, [candidate |-> candidate, id |-> d.id])
    /\ UNCHANGED <<expandVars, bodyVars, searchVars, codecVars, passVars, panicVars>>

\* IdMap::new()
InitId ==
    /\ NoBody
    /\ debug_assertions = FALSE
    /\ statements = <<>>
    /\ f_plan = <<>>
    /\ splices = <<>>
    /\ extra_stmts = 0
    /\ idx = 0
    /\ gap = [start |-> 0, end |-> 0]
    /\ pc = "idle"
    /\ SearchIdle
    /\ CodecIdle
    /\ PassIdle
    /\ PanicIdle
    /\ map = DEFAULT_ID_MAP
    /\ derived = <<>>

NextId == Derive

SpecId == InitId /\ [][NextId]_vars

\* ------------------------------------------------------------------- C30
\* C30: over any sequence of derive calls on one IdMap made by IdMap::new(),
\* no two calls return the same id and no returned id is one of the default
\* ids, also when a candidate already reads '<name>-<n>'.
C30_DerivedIdsUnique ==
    /\ \A i, j \in DOMAIN derived : i # j => derived[i].id # derived[j].id
    /\ \A i \in DOMAIN derived : derived[i].id \notin DOMAIN DEFAULT_ID_MAP

====
